---------------------------- MODULE Spec2Model ----------------------------
(***************************************************************************)
(* A model of the resilient multi-provider retrieval layer of              *)
(* src/src/tools/api.py: Finnhub key rotation, the two request executors   *)
(* (_finnhub_request, _make_api_request), the provider fallback chains and *)
(* the cache-aside facades (get_prices, get_financial_metrics,             *)
(* get_insider_trades, get_company_news, get_price_data).                  *)
(*                                                                         *)
(* The module holds several specifications over one set of variables:      *)
(*   Spec        one caller driving the two request executors;             *)
(*   SpecConc    several workers inside _get_next_finnhub_key at once;     *)
(*   SpecFacade  the facades, their fallback chains and the cache;         *)
(*   SpecPure    one call of a provider adapter on each of its inputs;     *)
(*   SpecFacadeConc  facade calls of two threads at once.                  *)
(* Each specification leaves the variables of the other layers unchanged.  *)
(***************************************************************************)
EXTENDS Integers, Sequences, FiniteSets, TLC

VARIABLES
    finnhub_key_index,  \* api.py:36  the module-level round-robin counter
    issued,             \* history: the keys _get_next_finnhub_key returned, in order
    observed,           \* history: the counter value each acquisition read
    fr,                 \* the frame of the running _finnhub_request call
    mar,                \* the frame of the running _make_api_request call
    kw,                 \* SpecConc: each worker's position inside _get_next_finnhub_key
    cache,              \* api.py:24   _cache: per resource kind, cache key -> stored list
    fc,                 \* SpecFacade: each worker's running facade call
    lastCall,           \* history: the facade call that returned last
    ncalls,             \* history: the number of facade calls begun
    tables,             \* history: the cache tables the calls begun so far use
    pf                  \* SpecPure: one call of a provider adapter, with its inputs

rotVars  == <<finnhub_key_index, issued, observed>>
execVars == <<fr, mar>>
facadeVars == <<cache, fc, lastCall, ncalls, tables>>

-----------------------------------------------------------------------------
(* Bounds of the model *)

\* A new executor call is started only while the counter is below MaxIndex.
MaxIndex == 3

\* _finnhub_request / _make_api_request are called with max_retries in 1..MaxRetriesArg.
MaxRetriesArg == 3

-----------------------------------------------------------------------------
(* Key rotation: api.py:29-44 *)

\* api.py:29-33: three slots, each with a distinct built-in default.
FINNHUB_KEYS == <<"key1", "key2", "key3">>

NumKeys == Len(FINNHUB_KEYS)

None == "None"

\* api.py:42  key = FINNHUB_KEYS[_finnhub_key_index % len(FINNHUB_KEYS)]
\* (Python indexes from 0, TLA+ sequences from 1).
KeyAt_Stuck(idx) == FINNHUB_KEYS[1]

KeyAt(idx) == FINNHUB_KEYS[(idx % Len(FINNHUB_KEYS)) + 1]

\* api.py:43  _finnhub_key_index += 1   (a Python int: no overflow)
IndexAfter(idx) == idx + 1

-----------------------------------------------------------------------------
(* _finnhub_request: api.py:47-106 *)

\* What one requests.get (api.py:71) together with response.json() (api.py:74)
\* can produce for the loop body.
FinnhubClasses ==
    { "ok",            \* 200, a JSON body without a truthy "error"
      "ok_error",      \* 200, a JSON object whose "error" is truthy
      "ok_badjson",    \* 200, response.json() raises
      "r429",          \* rate limited
      "r403",          \* forbidden
      "other",         \* any other status
      "timeout",       \* requests.exceptions.Timeout
      "conn_error" }   \* any other exception of requests.get

Payloads == {"p1", "p2"}

FinnhubResponses ==
    [cls : {"ok"}, payload : Payloads]
        \cup [cls : FinnhubClasses \ {"ok"}, payload : {None}]

\* api.py:65  range(max_retries * len(FINNHUB_KEYS))
FinnhubBudget_OneMore(max_retries) == max_retries * Len(FINNHUB_KEYS) + 1

FinnhubBudget(max_retries) == max_retries * Len(FINNHUB_KEYS)

NoResponse == [cls |-> "none", payload |-> None]

FrIdle ==
    [pc |-> "idle", max_retries |-> 0, attempt |-> 0, keys_tried |-> {},
     sent |-> 0, slept |-> 0, last |-> NoResponse, result |-> "unset"]

\* api.py:87  time.sleep(5)
FINNHUB_COOLDOWN == 5

\* `return x` inside the loop.
FrReturn(f, x) == [f EXCEPT !.pc = "done", !.result = x]

\* `continue`: the next value of range(...), or the end of the loop and the
\* `return None` of api.py:106.
FrContinue(f) ==
    IF f.attempt + 1 < FinnhubBudget(f.max_retries)
    THEN [f EXCEPT !.attempt = @ + 1]
    ELSE [f EXCEPT !.attempt = @ + 1, !.pc = "done", !.result = None]

FrRateLimited_SleepEach(f, key) ==
    FrContinue([f EXCEPT !.keys_tried = @ \cup {key},
                         !.slept = @ + FINNHUB_COOLDOWN])

\* api.py:81-89: the 429 branch.
FrRateLimited(f, key) ==
    LET tried == f.keys_tried \cup {key}
    IN  IF Cardinality(tried) >= Len(FINNHUB_KEYS)
        THEN FrContinue([f EXCEPT !.keys_tried = {},
                                  !.slept = @ + FINNHUB_COOLDOWN])
        ELSE FrContinue([f EXCEPT !.keys_tried = tried])

\* api.py:69-104: one pass of the loop body after the key was taken.
FrBody_RetryForbidden(f, key, resp) ==
    LET g == [f EXCEPT !.sent = @ + 1, !.last = resp]
    IN  CASE resp.cls = "ok"         -> FrReturn(g, resp.payload)
          [] resp.cls = "r429"       -> FrRateLimited(g, key)
          [] resp.cls = "timeout"    -> FrContinue(g)
          [] resp.cls = "r403"       -> FrContinue(g)
          [] OTHER                   -> FrReturn(g, None)

FrBody(f, key, resp) ==
    LET g == [f EXCEPT !.sent = @ + 1, !.last = resp]
    IN  CASE resp.cls = "ok"         -> FrReturn(g, resp.payload)
          [] resp.cls = "ok_error"   -> FrReturn(g, None)
          [] resp.cls = "ok_badjson" -> FrReturn(g, None)
          [] resp.cls = "r429"       -> FrRateLimited(g, key)
          [] resp.cls = "r403"       -> FrReturn(g, None)
          [] resp.cls = "other"      -> FrReturn(g, None)
          [] resp.cls = "timeout"    -> FrContinue(g)
          [] resp.cls = "conn_error" -> FrReturn(g, None)

\* The call: api.py:59-65 up to the first pass of the loop.
FinnhubCall ==
    /\ fr.pc = "idle"
    /\ mar.pc = "idle"
    /\ finnhub_key_index < MaxIndex
    /\ \E mr \in 1..MaxRetriesArg :
         fr' = [FrIdle EXCEPT !.pc = "loop", !.max_retries = mr]
    /\ UNCHANGED <<rotVars, mar, kw, facadeVars, pf>>

\* One pass of the loop: api.py:66 takes the key, api.py:71 sends the request.
FinnhubAttempt ==
    /\ fr.pc = "loop"
    /\ \E resp \in FinnhubResponses :
         fr' = FrBody(fr, KeyAt(finnhub_key_index), resp)
    /\ issued' = Append(issued, KeyAt(finnhub_key_index))
    /\ observed' = Append(observed, finnhub_key_index)
    /\ finnhub_key_index' = IndexAfter(finnhub_key_index)
    /\ UNCHANGED <<mar, kw, facadeVars, pf>>

\* The caller takes the returned value; the frame is gone.
FinnhubReturn ==
    /\ fr.pc = "done"
    /\ fr' = FrIdle
    /\ UNCHANGED <<rotVars, mar, kw, facadeVars, pf>>

-----------------------------------------------------------------------------
(* _make_api_request: api.py:558-589 *)

\* What requests.get / requests.post (api.py:577, 579) can produce: a response
\* with a status code, or an exception (no try surrounds the call).
MarClasses == {"r200", "r429", "other", "timeout", "conn_error"}

MarIdle ==
    [pc |-> "idle", max_retries |-> 0, attempt |-> 0, sent |-> 0,
     delays |-> <<>>, last |-> "none", result |-> "unset"]

MarDelay_Flat(attempt) == 60

\* api.py:583  delay = 60 + (30 * attempt)
MarDelay(attempt) == 60 + (30 * attempt)

MarBody_RetryLast(m, cls) ==
    LET g == [m EXCEPT !.sent = @ + 1, !.last = cls]
    IN  CASE cls \in {"timeout", "conn_error"} ->
                 [g EXCEPT !.pc = "done", !.result = "raised"]
          [] cls = "r429" /\ m.attempt <= m.max_retries ->
                 [g EXCEPT !.attempt = @ + 1,
                           !.delays = Append(@, 60 + (30 * m.attempt))]
          [] OTHER ->
                 [g EXCEPT !.pc = "done", !.result = cls]

\* api.py:575-589: one pass of the loop body.
MarBody(m, cls) ==
    LET g == [m EXCEPT !.sent = @ + 1, !.last = cls]
    IN  CASE cls \in {"timeout", "conn_error"} ->
                 \* the exception leaves _make_api_request
                 [g EXCEPT !.pc = "done", !.result = "raised"]
          [] cls = "r429" /\ m.attempt < m.max_retries ->
                 [g EXCEPT !.attempt = @ + 1,
                           !.delays = Append(@, MarDelay(m.attempt))]
          [] OTHER ->
                 [g EXCEPT !.pc = "done", !.result = cls]

MarCall ==
    /\ fr.pc = "idle"
    /\ mar.pc = "idle"
    /\ finnhub_key_index < MaxIndex
    /\ \E mr \in 1..MaxRetriesArg :
         mar' = [MarIdle EXCEPT !.pc = "loop", !.max_retries = mr]
    /\ UNCHANGED <<rotVars, fr, kw, facadeVars, pf>>

MarAttempt ==
    /\ mar.pc = "loop"
    /\ \E cls \in MarClasses : mar' = MarBody(mar, cls)
    /\ UNCHANGED <<rotVars, fr, kw, facadeVars, pf>>

MarReturn ==
    /\ mar.pc = "done"
    /\ mar' = MarIdle
    /\ UNCHANGED <<rotVars, fr, kw, facadeVars, pf>>

-----------------------------------------------------------------------------
(* _get_next_finnhub_key entered by several workers: api.py:39-44 *)
(* run_single_agent (n8n_analyze.py:184-189) hands every agent to the      *)
(* default thread pool, so requests of different HTTP calls run the        *)
(* function in parallel threads.  No lock guards the counter; a thread     *)
(* switch can fall between the read of api.py:42 and the read-modify-write *)
(* of api.py:43, and (depending on the interpreter build) inside the       *)
(* latter, so every such switch point is a step of its own.                *)

Workers == {"w1", "w2"}

\* The workers make at most MaxAcquisitions acquisitions altogether.
MaxAcquisitions == 4

KwIdle == [pc |-> "idle", idx |-> 0, tmp |-> 0, key |-> None]

InFlight == {w \in Workers : kw[w].pc # "idle"}

KwCall(w) ==
    /\ kw[w].pc = "idle"
    /\ Len(issued) + Cardinality(InFlight) < MaxAcquisitions
    /\ kw' = [kw EXCEPT ![w].pc = "read"]
    /\ UNCHANGED <<rotVars, execVars, facadeVars, pf>>

\* api.py:42: load the counter, pick the key.
KwReadKey(w) ==
    /\ kw[w].pc = "read"
    /\ kw' = [kw EXCEPT ![w].pc = "load",
                        ![w].idx = finnhub_key_index,
                        ![w].key = KeyAt(finnhub_key_index)]
    /\ UNCHANGED <<rotVars, execVars, facadeVars, pf>>

\* api.py:43: load the counter for the increment ...
KwLoad(w) ==
    /\ kw[w].pc = "load"
    /\ kw' = [kw EXCEPT ![w].pc = "store", ![w].tmp = finnhub_key_index]
    /\ UNCHANGED <<rotVars, execVars, facadeVars, pf>>

\* ... and store the incremented value.
KwStore(w) ==
    /\ kw[w].pc = "store"
    /\ finnhub_key_index' = IndexAfter(kw[w].tmp)
    /\ kw' = [kw EXCEPT ![w].pc = "ret"]
    /\ UNCHANGED <<issued, observed, execVars, facadeVars, pf>>

\* api.py:44: return key.
KwReturn(w) ==
    /\ kw[w].pc = "ret"
    /\ issued' = Append(issued, kw[w].key)
    /\ observed' = Append(observed, kw[w].idx)
    /\ kw' = [kw EXCEPT ![w] = KwIdle]
    /\ UNCHANGED <<finnhub_key_index, execVars, facadeVars, pf>>

-----------------------------------------------------------------------------
(* The cache-aside facades: api.py:592-858 *)
(* A facade call is a sequence of steps of one worker: the cache lookup,   *)
(* then one step per provider adapter or page request (each ends with the  *)
(* network answering), the last of which also stores and returns.  Calls   *)
(* of different workers interleave between steps.  An executor call is     *)
(* taken here by the value it returns (Spec is about what happens inside). *)

\* At most MaxCalls facade calls are begun.
MaxCalls == 2

\* The calls of one run use at most MaxTables cache tables (the tables share
\* no state).
MaxTables == 1

\* Dates are day numbers; the code's comparison of "YYYY-MM-DD" strings
\* orders them as the day numbers do.
Days == {1, 2, 3}

\* api.py:692  start_date: str | None = None
NoDate == 0

DateStr(d) == "2024-01-0" \o ToString(d)

Tickers == {"AAPL"}

NoReq == [ticker |-> "", start |-> NoDate, end |-> NoDate, period |-> "", limit |-> 0]

(* src.data.cache is not among the sources; the store is modelled from the *)
(* specification: an exact-match key -> value store per resource kind with *)
(* get/set semantics, a missing key reading as None.                       *)
CacheKinds == {"prices", "financial_metrics", "insider_trades", "company_news"}

EmptyCache == [k \in CacheKinds |-> [x \in {} |-> <<>>]]

\* Optional[list]: None is [some |-> FALSE].
NoneList == [some |-> FALSE, v |-> <<>>]

Some(v) == [some |-> TRUE, v |-> v]

CacheGet(c, kind, key) ==
    IF key \in DOMAIN c[kind] THEN Some(c[kind][key]) ELSE NoneList

CacheSet(c, kind, key, data) ==
    [c EXCEPT ![kind] = (key :> data) @@ @]

\* `if cached_data := _cache.get_...(key)`: None and [] are both falsy.
Truthy(o) == o.some /\ o.v # <<>>

(* src.data.models is not among the sources either: a model object wraps   *)
(* its field dict; model_dump() gives the dict, the constructor wraps one. *)
Model(cls, d) == [cls |-> cls, f |-> d]

ModelDump(o) == o.f

DumpAll(objs) == [i \in 1..Len(objs) |-> ModelDump(objs[i])]

LoadAll(cls, dicts) == [i \in 1..Len(dicts) |-> Model(cls, dicts[i])]

\* Optional[float]: None is [some |-> FALSE].
NoneNum == [some |-> FALSE, v |-> 0]

Num(n) == [some |-> TRUE, v |-> n]

\* Python truthiness of an Optional[float]: None and 0 are falsy.
Falsy(x) == ~x.some \/ x.v = 0

\* `a or b`
PyOr(a, b) == IF Falsy(a) THEN b ELSE a

\* The frame of a facade call.
NoCall ==
    [op |-> "none", req |-> NoReq, key |-> "", empty |-> TRUE, raised |-> FALSE,
     stored |-> <<>>]

FcIdle ==
    [pc |-> "idle", op |-> "none", req |-> NoReq, key |-> "", hit |-> FALSE,
     tried |-> <<>>, sent |-> <<>>, wrote |-> {}, acc |-> <<>>, cursor |-> NoDate,
     result |-> <<>>, raised |-> "", pred |-> NoCall, locals |-> <<>>,
     levels |-> <<>>, value |-> NoneNum, last |-> "none"]

\* The adapter `prov` was called and returned `out`.
Tried(f, prov, out) == [f EXCEPT !.tried = Append(@, [prov |-> prov, out |-> out])]

\* Outbound requests were sent to `targets` (in this order).
Sent(f, targets) == [f EXCEPT !.sent = @ \o targets]

-----------------------------------------------------------------------------
(* Prices: api.py:260-316, 332-403, 592-614, 843-858 *)

\* api.py:595
PricesKey(req) ==
    req.ticker \o "_" \o DateStr(req.start) \o "_" \o DateStr(req.end)

\* api.py:300, 384  `if date_str < start_date or date_str > end_date: continue`
OutOfRange(d, req) == d < req.start \/ d > req.end

PriceOf(row) == Model("Price", [time |-> row.t])

\* A candle of a provider response: its day, and whether all of its OHLCV
\* values are numbers.
Candle(t, ok) == [t |-> t, ok |-> ok]

\* The candle lists a provider answers with: none; two days, the newer
\* first; two days of which the first lies before some requested ranges;
\* a candle with a missing value followed by a complete one.
CandleLists ==
    { <<>>,
      <<Candle(3, TRUE), Candle(2, TRUE)>>,
      <<Candle(1, TRUE), Candle(2, TRUE)>>,
      <<Candle(2, FALSE), Candle(3, TRUE)>> }

YahooResponses ==
    {[status |-> "fail", rows |-> <<>>]} \cup [status : {"ok"}, rows : CandleLists]

\* api.py:337-403.  "fail": a status other than 200, a body without
\* chart.result, or an exception (caught at api.py:401).
GetPricesYahoo(resp, req) ==
    IF resp.status # "ok" THEN <<>>
    ELSE LET kept == SelectSeq(resp.rows,
                               LAMBDA r : ~OutOfRange(r.t, req) /\ r.ok)
         IN  [i \in 1..Len(kept) |-> PriceOf(kept[i])]

\* What _finnhub_request("stock/candle", ...) returns: None, a body whose
\* "s" is not "ok", or candles.
CandleResponses ==
    {[status |-> "none", rows |-> <<>>], [status |-> "no_data", rows |-> <<>>]}
        \cup [status : {"ok"}, rows : CandleLists]

GetPricesFinnhub_SkipBad(data, req) ==
    IF data.status # "ok" THEN <<>>
    ELSE LET kept == SelectSeq(data.rows,
                               LAMBDA r : ~OutOfRange(r.t, req) /\ r.ok)
         IN  [i \in 1..Len(kept) |-> PriceOf(kept[i])]

\* api.py:265-316.  float(None) on a candle inside the range raises, and the
\* except of api.py:314 turns that into [].
GetPricesFinnhub(data, req) ==
    IF data.status # "ok" THEN <<>>
    ELSE LET kept == SelectSeq(data.rows, LAMBDA r : ~OutOfRange(r.t, req))
         IN  IF \E i \in 1..Len(kept) : ~kept[i].ok
             THEN <<>>
             ELSE [i \in 1..Len(kept) |-> PriceOf(kept[i])]

\* api.py:851  df.sort_index(): rows ordered by date.
RECURSIVE SortByTime(_)
SortByTime(rows) ==
    IF rows = <<>> THEN <<>>
    ELSE LET m == CHOOSE i \in 1..Len(rows) :
                    \A j \in 1..Len(rows) :
                       \/ rows[i].time < rows[j].time
                       \/ (rows[i].time = rows[j].time /\ i <= j)
             rest == [k \in 1..(Len(rows) - 1) |->
                        IF k < m THEN rows[k] ELSE rows[k + 1]]
         IN  <<rows[m]>> \o SortByTime(rest)

\* api.py:843-852.  pd.DataFrame([]) has no column "time": df["time"]
\* raises KeyError.
PricesToDf(f) ==
    IF f.result = <<>>
    THEN [f EXCEPT !.pc = "done", !.raised = "KeyError"]
    ELSE [f EXCEPT !.pc = "done", !.result = SortByTime(DumpAll(f.result))]

\* A level of get_market_cap has yielded v.
Level(f, n, v) == [f EXCEPT !.levels = Append(@, [level |-> n, value |-> v])]

MarketCapAfterMetrics_NoneTest(f) ==
    LET v == IF f.result # <<>> THEN f.result[1].f.market_cap ELSE NoneNum
        g == Level(f, 2, v)
    IN  IF ~v.some THEN [g EXCEPT !.pc = "mc_fmp"]
        ELSE [g EXCEPT !.pc = "done", !.value = v]

\* api.py:832-837: get_financial_metrics has returned f.result to
\* get_market_cap.
MarketCapAfterMetrics(f) ==
    LET v == IF f.result # <<>> THEN f.result[1].f.market_cap ELSE NoneNum
        g == Level(f, 2, v)
    IN  IF Falsy(v) THEN [g EXCEPT !.pc = "mc_fmp"]
        ELSE [g EXCEPT !.pc = "done", !.value = v]

\* The facade returns `result`: to the caller, to get_price_data
\* (api.py:856-858), which converts it, or to get_market_cap.
FcDone(f, result) ==
    LET g == [f EXCEPT !.result = result]
    IN  CASE f.op = "get_price_data" -> PricesToDf(g)
          [] f.op = "get_market_cap" -> MarketCapAfterMetrics(g)
          [] OTHER -> [g EXCEPT !.pc = "done"]

\* An exception leaves the facade.
FcRaise(f, exc) == [f EXCEPT !.pc = "done", !.raised = exc, !.result = <<>>]

\* `if not xs: return []` and otherwise `_cache.set_...(key, dumps); return xs`:
\* api.py:609-614, 640-645, 746-751, 811-816.  Gives <<frame, cache>>.
StoreAndReturn_Append(f, c, kind, xs) ==
    LET got == CacheGet(c, kind, f.key)
        old == IF Truthy(got) THEN got.v ELSE <<>>
    IN  IF xs = <<>>
        THEN <<FcDone(f, <<>>), c>>
        ELSE <<FcDone([f EXCEPT !.wrote = @ \cup {[kind |-> kind, key |-> f.key]}], xs),
               CacheSet(c, kind, f.key, old \o DumpAll(xs))>>

StoreAndReturn_CacheEmpty(f, c, kind, xs) ==
    <<FcDone([f EXCEPT !.wrote = @ \cup {[kind |-> kind, key |-> f.key]}], xs),
      CacheSet(c, kind, f.key, DumpAll(xs))>>

StoreAndReturn_NoWrite(f, c, kind, xs) == <<FcDone(f, xs), c>>

StoreAndReturn(f, c, kind, xs) ==
    IF xs = <<>>
    THEN <<FcDone(f, <<>>), c>>
    ELSE <<FcDone([f EXCEPT !.wrote = @ \cup {[kind |-> kind, key |-> f.key]}], xs),
           CacheSet(c, kind, f.key, DumpAll(xs))>>

Lookup_DropLast(f, c, kind, cls, first) ==
    LET got == CacheGet(c, kind, f.key)
    IN  IF Truthy(got)
        THEN FcDone([f EXCEPT !.hit = TRUE],
                    LoadAll(cls, SubSeq(got.v, 1, Len(got.v) - 1)))
        ELSE [f EXCEPT !.pc = first]

\* api.py:597-599 and its three siblings: the lookup; on a hit the stored
\* dicts are turned into model objects and returned.
Lookup_Ignore(f, c, kind, cls, first) == [f EXCEPT !.pc = first]

Lookup(f, c, kind, cls, first) ==
    LET got == CacheGet(c, kind, f.key)
    IN  IF Truthy(got)
        THEN FcDone([f EXCEPT !.hit = TRUE], LoadAll(cls, got.v))
        ELSE [f EXCEPT !.pc = first]

PriceRequests ==
    [ticker : Tickers, start : {1, 2}, end : {3}, period : {""}, limit : {0}]

PricesYahoo_AlwaysFallback(w) ==
    /\ fc[w].pc = "yahoo"
    /\ \E resp \in YahooResponses :
         LET out == GetPricesYahoo(resp, fc[w].req)
         IN  fc' = [fc EXCEPT ![w] =
                      [Sent(Tried(@, "yahoo", out), <<"yahoo">>) EXCEPT !.pc = "finnhub"]]
    /\ UNCHANGED <<rotVars, execVars, kw, cache, lastCall, ncalls, tables, pf>>

\* api.py:602
PricesYahoo(w) ==
    /\ fc[w].pc = "yahoo"
    /\ \E resp \in YahooResponses :
         LET out == GetPricesYahoo(resp, fc[w].req)
             f   == Sent(Tried(fc[w], "yahoo", out), <<"yahoo">>)
             nxt == IF out = <<>>
                    THEN <<[f EXCEPT !.pc = "finnhub"], cache>>
                    ELSE StoreAndReturn(f, cache, "prices", out)
         IN  /\ fc' = [fc EXCEPT ![w] = nxt[1]]
             /\ cache' = nxt[2]
    /\ UNCHANGED <<rotVars, execVars, kw, lastCall, ncalls, tables, pf>>

\* api.py:605-614
PricesFinnhub(w) ==
    /\ fc[w].pc = "finnhub"
    /\ \E data \in CandleResponses :
         LET out == GetPricesFinnhub(data, fc[w].req)
             f   == Sent(Tried(fc[w], "finnhub", out), <<"finnhub">>)
             nxt == StoreAndReturn(f, cache, "prices", out)
         IN  /\ fc' = [fc EXCEPT ![w] = nxt[1]]
             /\ cache' = nxt[2]
    /\ UNCHANGED <<rotVars, execVars, kw, lastCall, ncalls, tables, pf>>

-----------------------------------------------------------------------------
(* Financial metrics: api.py:114-257, 406-534, 617-645 *)

\* api.py:626
MetricsKey(req) ==
    req.ticker \o "_" \o req.period \o "_" \o DateStr(req.end)
        \o "_" \o ToString(req.limit)

\* api.py:161
SupplementKey(ticker) == "fmp_supplement_" \o ticker

\* The "metric" object of a stock/metric body, by its three critical fields
\* and one of the others.
MetricDict(peg, roic, fcf, gm) ==
    [pegRatio |-> peg, roicTTM |-> roic, freeCashFlowPerShareTTM |-> fcf,
     grossMarginTTM |-> gm]

\* What _finnhub_request("stock/metric", ...) returns: None, a body whose
\* "metric" is empty, a metric with every critical field, one without
\* pegRatio.
MetricResponses ==
    { [status |-> "none",  metric |-> MetricDict(NoneNum, NoneNum, NoneNum, NoneNum)],
      [status |-> "empty", metric |-> MetricDict(NoneNum, NoneNum, NoneNum, NoneNum)],
      [status |-> "ok",    metric |-> MetricDict(Num(1), Num(1), Num(1), Num(1))],
      [status |-> "ok",    metric |-> MetricDict(NoneNum, Num(1), Num(1), Num(1))] }

\* What _finnhub_request("stock/profile2", ...) returns: None, {}, a profile
\* with marketCapitalization (in millions), one where it is 0, a profile
\* without that key (marketCapitalization |-> NoneNum).
ProfileResponses ==
    { [status |-> "none",  marketCapitalization |-> NoneNum],
      [status |-> "empty", marketCapitalization |-> NoneNum],
      [status |-> "ok",    marketCapitalization |-> Num(3)],
      [status |-> "ok",    marketCapitalization |-> Num(0)],
      [status |-> "ok",    marketCapitalization |-> NoneNum] }

\* api.py:142  profile_data.get("marketCapitalization", 0) * 1_000_000
\*             if profile_data else None
ProfileMarketCap(p) ==
    IF p.status # "ok" THEN NoneNum
    ELSE Num((IF p.marketCapitalization.some THEN p.marketCapitalization.v ELSE 0)
                * 1000000)

\* The first element of an FMP ratios or key-metrics list; {} is the dict
\* with empty |-> TRUE, whose get(...) gives None.
EmptyDict ==
    [empty |-> TRUE, priceToEarningsGrowthRatio |-> NoneNum,
     freeCashFlowPerShare |-> NoneNum, returnOnInvestedCapital |-> NoneNum,
     grossProfitMargin |-> NoneNum]

FmpRatio ==
    [empty |-> FALSE, priceToEarningsGrowthRatio |-> Num(2),
     freeCashFlowPerShare |-> Num(2), returnOnInvestedCapital |-> NoneNum,
     grossProfitMargin |-> Num(2)]

FmpKeyMetric ==
    [empty |-> FALSE, priceToEarningsGrowthRatio |-> NoneNum,
     freeCashFlowPerShare |-> NoneNum, returnOnInvestedCapital |-> Num(2),
     grossProfitMargin |-> NoneNum]

\* A supplement request: requests.get raised, no usable list (a status other
\* than 200, a body that is no list, an empty list), or a list.
SupplementStatus == {"exc", "nothing", "ok"}

\* api.py:130-143: the two Finnhub requests of the adapter.
MetricsFinnhub(w) ==
    /\ fc[w].pc = "m_finnhub"
    /\ \E m \in MetricResponses, p \in ProfileResponses :
         fc' = [fc EXCEPT ![w] =
                  IF m.status # "ok"
                  THEN [Sent(Tried(@, "finnhub", <<>>), <<"finnhub">>)
                            EXCEPT !.pc = "m_fmp"]
                  ELSE [Sent(@, <<"finnhub", "finnhub">>)
                            EXCEPT !.pc = "m_supplement",
                                   !.locals = [metric |-> m.metric,
                                               market_cap |-> ProfileMarketCap(p)]]]
    /\ UNCHANGED <<rotVars, execVars, kw, cache, lastCall, ncalls, tables, pf>>

NeedsFmp_KeyOnly(fmp_api_key, metric) == fmp_api_key

\* api.py:152-157
NeedsFmp(fmp_api_key, metric) ==
    /\ fmp_api_key
    /\ \/ ~metric.pegRatio.some
       \/ ~metric.roicTTM.some
       \/ ~metric.freeCashFlowPerShareTTM.some

SupplementHasData_Always(fmp_ratios, fmp_keymetrics) == TRUE

\* api.py:187: `if fmp_ratios or fmp_keymetrics`, on two dicts.
SupplementHasData(fmp_ratios, fmp_keymetrics) ==
    ~fmp_ratios.empty \/ ~fmp_keymetrics.empty

Supplement_NoCache(needs_fmp, ratios, km, c, ticker) ==
    LET none   == [fmp_ratios |-> EmptyDict, fmp_keymetrics |-> EmptyDict,
                   sent |-> <<>>, wrote |-> {}, cache |-> c, lookups |-> <<>>]
        key    == SupplementKey(ticker)
        cached == CacheGet(c, "financial_metrics", key)
        looked == [none EXCEPT !.lookups = <<key>>]
        r      == IF ratios = "ok" THEN FmpRatio ELSE EmptyDict
        k      == IF km = "ok" THEN FmpKeyMetric ELSE EmptyDict
    IN  CASE ~needs_fmp -> none
          [] ratios = "exc" -> [looked EXCEPT !.sent = <<"fmp">>]
          [] km = "exc" -> [looked EXCEPT !.fmp_ratios = r, !.sent = <<"fmp", "fmp">>]
          [] OTHER ->
                 [fmp_ratios |-> r, fmp_keymetrics |-> k, sent |-> <<"fmp", "fmp">>,
                  wrote |-> IF ~SupplementHasData(r, k) THEN {}
                            ELSE {[kind |-> "financial_metrics", key |-> key]},
                  cache |-> IF ~SupplementHasData(r, k) THEN c
                            ELSE CacheSet(c, "financial_metrics", key,
                                          <<[ratios |-> r, keymetrics |-> k]>>),
                  lookups |-> <<key>>]

\* api.py:159-190: the supplement.  Gives the two dicts, the requests sent and
\* the cache after it.
Supplement(needs_fmp, ratios, km, c, ticker) ==
    LET none   == [fmp_ratios |-> EmptyDict, fmp_keymetrics |-> EmptyDict,
                   sent |-> <<>>, wrote |-> {}, cache |-> c, lookups |-> <<>>]
        key    == SupplementKey(ticker)
        cached == CacheGet(c, "financial_metrics", key)
        looked == [none EXCEPT !.lookups = <<key>>]
        r      == IF ratios = "ok" THEN FmpRatio ELSE EmptyDict
        k      == IF km = "ok" THEN FmpKeyMetric ELSE EmptyDict
    IN  CASE ~needs_fmp -> none
          [] Truthy(cached) ->
                 [looked EXCEPT !.fmp_ratios = cached.v[1].ratios,
                              !.fmp_keymetrics = cached.v[1].keymetrics]
          [] ratios = "exc" -> [looked EXCEPT !.sent = <<"fmp">>]
          [] km = "exc" -> [looked EXCEPT !.fmp_ratios = r, !.sent = <<"fmp", "fmp">>]
          [] OTHER ->
                 [fmp_ratios |-> r, fmp_keymetrics |-> k, sent |-> <<"fmp", "fmp">>,
                  wrote |-> IF ~SupplementHasData(r, k) THEN {}
                            ELSE {[kind |-> "financial_metrics", key |-> key]},
                  cache |-> IF ~SupplementHasData(r, k) THEN c
                            ELSE CacheSet(c, "financial_metrics", key,
                                          <<[ratios |-> r, keymetrics |-> k]>>),
                  lookups |-> <<key>>]

\* api.py:193-253, for the fields built from the critical ones and for
\* gross_margin.
FinnhubMetrics(req, loc, fmp_ratios, fmp_keymetrics) ==
    Model("FinancialMetrics",
          [ticker |-> req.ticker, report_period |-> req.end, period |-> req.period,
           market_cap |-> loc.market_cap,
           peg_ratio |-> PyOr(loc.metric.pegRatio,
                              fmp_ratios.priceToEarningsGrowthRatio),
           return_on_invested_capital |->
               PyOr(loc.metric.roicTTM, fmp_keymetrics.returnOnInvestedCapital),
           free_cash_flow_per_share |->
               PyOr(loc.metric.freeCashFlowPerShareTTM,
                    fmp_ratios.freeCashFlowPerShare),
           gross_margin |-> PyOr(loc.metric.grossMarginTTM,
                                 fmp_ratios.grossProfitMargin)])

\* api.py:145-253, then api.py:636-645 with a non-empty list.
MetricsSupplement(w) ==
    /\ fc[w].pc = "m_supplement"
    /\ \E fmp_api_key \in BOOLEAN, ratios \in SupplementStatus, km \in SupplementStatus :
         LET f0  == fc[w]
             sup == Supplement(NeedsFmp(fmp_api_key, f0.locals.metric), ratios, km,
                               cache, f0.req.ticker)
             out == <<FinnhubMetrics(f0.req, f0.locals, sup.fmp_ratios,
                                     sup.fmp_keymetrics)>>
             f   == [Sent(Tried(f0, "finnhub", out), sup.sent)
                        EXCEPT !.wrote = @ \cup sup.wrote, !.locals = <<>>]
             nxt == StoreAndReturn(f, sup.cache, "financial_metrics", out)
         IN  /\ fc' = [fc EXCEPT ![w] = nxt[1]]
             /\ cache' = nxt[2]
    /\ UNCHANGED <<rotVars, execVars, kw, lastCall, ncalls, tables, pf>>

\* One element of the FMP ratios list.
FmpRow(d) ==
    [date |-> d, period |-> "FY", peg |-> Num(2), fcf |-> Num(2), gm |-> Num(2)]

\* The four FMP responses taken together: a request raised; a ratios or
\* key-metrics body mentions "Premium"; no ratios list; ratios of one or of
\* two periods, with key-metrics for the first period only and a profile.
FmpResponses ==
    [status : {"exc", "premium", "no_ratios"}, ratios : {<<>>}]
        \cup [status : {"ok"}, ratios : {<<FmpRow(3)>>, <<FmpRow(3), FmpRow(2)>>}]

\* api.py:453  ratios[:limit]
Take(xs, n) == SubSeq(xs, 1, IF Len(xs) < n THEN Len(xs) ELSE n)

\* api.py:416-534
GetFinancialMetricsFmp(fmp_api_key, resp, req) ==
    IF ~fmp_api_key \/ resp.status # "ok" THEN <<>>
    ELSE LET rows == Take(resp.ratios, req.limit)
         IN  [i \in 1..Len(rows) |->
                Model("FinancialMetrics",
                      [ticker |-> req.ticker, report_period |-> rows[i].date,
                       period |-> IF req.period = "ttm" THEN rows[i].period
                                  ELSE req.period,
                       market_cap |-> PyOr(Num(4000000), NoneNum),
                       peg_ratio |-> rows[i].peg,
                       return_on_invested_capital |->
                           IF i = 1 THEN Num(2) ELSE NoneNum,
                       free_cash_flow_per_share |-> rows[i].fcf,
                       gross_margin |-> rows[i].gm])]

\* api.py:638-645
MetricsFmp(w) ==
    /\ fc[w].pc = "m_fmp"
    /\ \E fmp_api_key \in BOOLEAN, resp \in FmpResponses :
         LET out == GetFinancialMetricsFmp(fmp_api_key, resp, fc[w].req)
             f   == Sent(Tried(fc[w], "fmp", out),
                         CASE ~fmp_api_key -> <<>>
                           [] resp.status = "exc" -> <<"fmp">>
                           [] OTHER -> <<"fmp", "fmp", "fmp", "fmp">>)
             nxt == StoreAndReturn(f, cache, "financial_metrics", out)
         IN  /\ fc' = [fc EXCEPT ![w] = nxt[1]]
             /\ cache' = nxt[2]
    /\ UNCHANGED <<rotVars, execVars, kw, lastCall, ncalls, tables, pf>>

MetricsRequests ==
    [ticker : Tickers, start : {NoDate}, end : {3}, period : {"ttm"}, limit : {1, 2}]

-----------------------------------------------------------------------------
(* Insider trades and company news: api.py:689-751, 754-816; line items:   *)
(* api.py:648-686 *)

\* The model follows a pagination loop for at most MaxPages page requests.
MaxPages == 2

FeedKey_NoStart(req) ==
    req.ticker \o "_" \o DateStr(req.end) \o "_" \o ToString(req.limit)

\* api.py:698, 763  f"{ticker}_{start_date or 'none'}_{end_date}_{limit}"
FeedKey(req) ==
    req.ticker \o "_" \o (IF req.start = NoDate THEN "none" ELSE DateStr(req.start))
        \o "_" \o DateStr(req.end) \o "_" \o ToString(req.limit)

FeedKind(op) == IF op = "get_insider_trades" THEN "insider_trades" ELSE "company_news"

FeedClass(op) == IF op = "get_insider_trades" THEN "InsiderTrade" ELSE "CompanyNews"

\* A record of a page: its date (filing_date of a trade, date of a news
\* item) and which of the upstream records of that date it is.
FeedRecord(op, d, n) ==
    IF op = "get_insider_trades"
    THEN Model("InsiderTrade", [filing_date |-> d, name |-> n])
    ELSE Model("CompanyNews", [date |-> d, title |-> n])

DateOf(op, rec) ==
    IF op = "get_insider_trades" THEN rec.f.filing_date ELSE rec.f.date

\* api.py:740, 805  min(... for ... in page)
MinDate(op, page) ==
    CHOOSE d \in {DateOf(op, page[i]) : i \in 1..Len(page)} :
        \A i \in 1..Len(page) : d <= DateOf(op, page[i])

\* What _make_api_request hands to its caller: an exception of requests, a
\* response with a status other than 200 (a last 429 among them), a 200 whose
\* body does not parse, or a 200 with a list.
ApiStatuses == {"raised", "r429", "other", "badjson", "ok"}

\* The pages a provider answers a request for dates up to `cursor` with,
\* newest record first: no record, fewer than `limit` records, a full page
\* that reaches an earlier day, a full page of the cursor's day.
Pages(op, cursor) ==
    { <<>>,
      <<FeedRecord(op, cursor, 1)>>,
      <<FeedRecord(op, cursor, 1), FeedRecord(op, cursor, 2)>> }
    \cup (IF cursor > 1
          THEN {<<FeedRecord(op, cursor, 1), FeedRecord(op, cursor - 1, 1)>>}
          ELSE {})

PageResponses(op, cursor) ==
    [status : ApiStatuses \ {"ok"}, page : {<<>>}]
        \cup [status : {"ok"}, page : Pages(op, cursor)]

FeedBody_DropOnFailure(f, c, resp) ==
    LET g    == [Sent(f, <<"financial_datasets">>) EXCEPT !.last = resp.status]
        acc  == g.acc \o resp.page
        h    == [g EXCEPT !.acc = acc]
        stop == StoreAndReturn(h, c, FeedKind(f.op), acc)
    IN  CASE resp.status = "raised" -> <<FcRaise(g, "RequestException"), c>>
          [] resp.status # "ok" -> <<FcDone(g, <<>>), c>>
          [] resp.page = <<>> -> StoreAndReturn(g, c, FeedKind(f.op), g.acc)
          [] f.req.start = NoDate \/ Len(resp.page) < f.req.limit -> stop
          [] MinDate(f.op, resp.page) <= f.req.start -> stop
          [] OTHER -> <<[h EXCEPT !.cursor = MinDate(f.op, resp.page)], c>>

FeedBody_NoSizeTest(f, c, resp) ==
    LET g    == [Sent(f, <<"financial_datasets">>) EXCEPT !.last = resp.status]
        acc  == g.acc \o resp.page
        h    == [g EXCEPT !.acc = acc]
        stop == StoreAndReturn(h, c, FeedKind(f.op), acc)
    IN  CASE resp.status = "raised" -> <<FcRaise(g, "RequestException"), c>>
          [] resp.status # "ok" -> StoreAndReturn(g, c, FeedKind(f.op), g.acc)
          [] resp.page = <<>> -> StoreAndReturn(g, c, FeedKind(f.op), g.acc)
          [] f.req.start = NoDate -> stop
          [] MinDate(f.op, resp.page) <= f.req.start -> stop
          [] OTHER -> <<[h EXCEPT !.cursor = MinDate(f.op, resp.page)], c>>

\* api.py:713-751 (778-816): one pass of `while True`, and what follows
\* the loop when the pass leaves it.  Gives <<frame, cache>>.
FeedBody(f, c, resp) ==
    LET g    == [Sent(f, <<"financial_datasets">>) EXCEPT !.last = resp.status]
        acc  == g.acc \o resp.page
        h    == [g EXCEPT !.acc = acc]
        stop == StoreAndReturn(h, c, FeedKind(f.op), acc)
    IN  CASE resp.status = "raised" -> <<FcRaise(g, "RequestException"), c>>
          [] resp.status # "ok" -> StoreAndReturn(g, c, FeedKind(f.op), g.acc)
          [] resp.page = <<>> -> StoreAndReturn(g, c, FeedKind(f.op), g.acc)
          [] f.req.start = NoDate \/ Len(resp.page) < f.req.limit -> stop
          [] MinDate(f.op, resp.page) <= f.req.start -> stop
          [] OTHER -> <<[h EXCEPT !.cursor = MinDate(f.op, resp.page)], c>>

FeedPage(w) ==
    /\ fc[w].pc = "page"
    /\ Len(fc[w].sent) < MaxPages
    /\ \E resp \in PageResponses(fc[w].op, fc[w].cursor) :
         LET nxt == FeedBody(fc[w], cache, resp)
         IN  /\ fc' = [fc EXCEPT ![w] = nxt[1]]
             /\ cache' = nxt[2]
    /\ UNCHANGED <<rotVars, execVars, kw, lastCall, ncalls, tables, pf>>

FeedRequests ==
    [ticker : Tickers, start : {NoDate, 1}, end : {3}, period : {""},
     limit : {2}]

\* The search results of a line-items body.
LineItem(n) == Model("LineItem", [ticker |-> "AAPL", n |-> n])

LineItemResponses ==
    [status : ApiStatuses \ {"ok"}, results : {<<>>}]
        \cup [status : {"ok"},
              results : {<<>>, <<LineItem(1)>>, <<LineItem(1), LineItem(2)>>}]

\* api.py:672-686
SearchLineItems(w) ==
    /\ fc[w].pc = "line_items"
    /\ \E resp \in LineItemResponses :
         LET g == Sent(fc[w], <<"financial_datasets">>)
         IN  fc' = [fc EXCEPT ![w] =
                      IF resp.status = "raised" THEN FcRaise(g, "RequestException")
                      ELSE FcDone(g, Take(resp.results, g.req.limit))]
    /\ UNCHANGED <<rotVars, execVars, kw, cache, lastCall, ncalls, tables, pf>>

LineItemRequests ==
    [ticker : Tickers, start : {NoDate}, end : {3}, period : {"ttm"}, limit : {1}]

-----------------------------------------------------------------------------
(* Market cap: api.py:319-329, 537-555, 819-840 *)

\* api.py:319-329
GetMarketCapFinnhub(p) ==
    IF p.status = "ok" /\ ~Falsy(p.marketCapitalization)
    THEN Num(p.marketCapitalization.v * 1000000)
    ELSE NoneNum

MarketCapRequests ==
    [ticker : Tickers, start : {NoDate}, end : {3}, period : {"ttm"}, limit : {10}]

\* api.py:828-832: the Finnhub profile, then, if that gave nothing, the
\* cache lookup of get_financial_metrics(ticker, end_date).
MarketCapFinnhub(w) ==
    /\ fc[w].pc = "mc_finnhub"
    /\ \E p \in ProfileResponses :
         LET v == GetMarketCapFinnhub(p)
             f == Level(Sent(fc[w], <<"finnhub">>), 1, v)
         IN  fc' = [fc EXCEPT ![w] =
                      IF ~Falsy(v) THEN [f EXCEPT !.pc = "done", !.value = v]
                      ELSE Lookup([f EXCEPT !.key = MetricsKey(f.req)], cache,
                                  "financial_metrics", "FinancialMetrics",
                                  "m_finnhub")]
    /\ UNCHANGED <<rotVars, execVars, kw, cache, lastCall, ncalls, tables, pf>>

\* What the FMP profile request gives: an exception, a status other than
\* 200, an empty list, a profile with marketCap, one where it is 0, one
\* without it.
FmpProfileResponses ==
    [status : {"exc", "non200", "empty"}, marketCap : {NoneNum}]
        \cup [status : {"ok"}, marketCap : {Num(4000000), Num(0), NoneNum}]

\* api.py:537-555
GetMarketCapFmp(fmp_api_key, resp) ==
    IF fmp_api_key /\ resp.status = "ok" THEN resp.marketCap ELSE NoneNum

\* api.py:837-840
MarketCapFmp(w) ==
    /\ fc[w].pc = "mc_fmp"
    /\ \E fmp_api_key \in BOOLEAN, resp \in FmpProfileResponses :
         LET v == GetMarketCapFmp(fmp_api_key, resp)
             f == Level(Sent(fc[w], IF fmp_api_key THEN <<"fmp">> ELSE <<>>), 3, v)
         IN  fc' = [fc EXCEPT ![w] = [f EXCEPT !.pc = "done", !.value = v]]
    /\ UNCHANGED <<rotVars, execVars, kw, cache, lastCall, ncalls, tables, pf>>

-----------------------------------------------------------------------------
(* Facade calls: begin and return *)

Ops ==
    {"get_prices", "get_price_data", "get_financial_metrics", "search_line_items",
     "get_insider_trades", "get_company_news", "get_market_cap"}

Requests(op) ==
    CASE op \in {"get_prices", "get_price_data"} -> PriceRequests
      [] op = "get_financial_metrics" -> MetricsRequests
      [] op = "search_line_items" -> LineItemRequests
      [] op \in {"get_insider_trades", "get_company_news"} -> FeedRequests
      [] op = "get_market_cap" -> MarketCapRequests

\* The cache table a facade itself reads and writes (search_line_items has
\* none; get_market_cap has none of its own, it goes through
\* get_financial_metrics).
TableOf(op) ==
    CASE op \in {"get_prices", "get_price_data"} -> "prices"
      [] op = "get_financial_metrics" -> "financial_metrics"
      [] op = "get_insider_trades" -> "insider_trades"
      [] op = "get_company_news" -> "company_news"
      [] OTHER -> "none"

\* The first statements of a facade up to the end of its cache lookup.
BeginFrame(op, req, c, last) ==
    LET f == [FcIdle EXCEPT !.op = op, !.req = req, !.pred = last]
    IN  CASE op \in {"get_prices", "get_price_data"} ->
               Lookup([f EXCEPT !.key = PricesKey(req)], c, "prices", "Price", "yahoo")
          [] op = "get_financial_metrics" ->
               Lookup([f EXCEPT !.key = MetricsKey(req)], c, "financial_metrics",
                      "FinancialMetrics", "m_finnhub")
          [] op = "search_line_items" -> [f EXCEPT !.pc = "line_items"]
          [] op = "get_market_cap" -> [f EXCEPT !.pc = "mc_finnhub"]
          [] op \in {"get_insider_trades", "get_company_news"} ->
               Lookup([f EXCEPT !.key = FeedKey(req), !.cursor = req.end], c,
                      FeedKind(op), FeedClass(op), "page")

FacadeBegin(w) ==
    /\ fc[w].pc = "idle"
    /\ ncalls < MaxCalls
    /\ \E op \in Ops : \E req \in Requests(op) :
         /\ Cardinality(tables \cup {TableOf(op)}) <= MaxTables
         /\ tables' = tables \cup {TableOf(op)}
         /\ fc' = [fc EXCEPT ![w] = BeginFrame(op, req, cache, lastCall)]
    /\ ncalls' = ncalls + 1
    /\ UNCHANGED <<rotVars, execVars, kw, cache, lastCall, pf>>

\* The caller has the value (or the exception).
FacadeReturn(w) ==
    /\ fc[w].pc = "done"
    /\ lastCall' = [op |-> fc[w].op, req |-> fc[w].req, key |-> fc[w].key,
                    empty |-> (fc[w].result = <<>>),
                    raised |-> (fc[w].raised # ""),
                    stored |-> IF /\ fc[w].op # "get_price_data"
                                  /\ [kind |-> TableOf(fc[w].op), key |-> fc[w].key]
                                        \in fc[w].wrote
                               THEN fc[w].result ELSE <<>>]
    /\ fc' = [fc EXCEPT ![w] = FcIdle]
    /\ UNCHANGED <<rotVars, execVars, kw, cache, ncalls, tables, pf>>

-----------------------------------------------------------------------------
(* The provider adapters as functions of what the providers answer:        *)
(* api.py:114-257, 260-316, 332-403, 406-534 *)

PfIdle ==
    [pc |-> "idle", fn |-> "none", in |-> <<>>, out |-> <<>>, sent |-> <<>>,
     lookups |-> <<>>, cache |-> EmptyCache, second |-> <<>>]

\* The values a numeric field of a provider body takes: absent or null,
\* zero, another number.
FieldValues(n) == {NoneNum, Num(0), Num(n)}

MetricInputs ==
    [status : {"none"}, metric : {MetricDict(NoneNum, NoneNum, NoneNum, NoneNum)}]
        \cup [status : {"empty"}, metric : {MetricDict(NoneNum, NoneNum, NoneNum, NoneNum)}]
        \cup [status : {"ok"},
              metric : {MetricDict(a, b, c, d) :
                           a \in FieldValues(1), b \in FieldValues(1),
                           c \in FieldValues(1), d \in FieldValues(1)}]

\* The cache as the adapter finds it: without or with a supplement entry.
SupplementCaches ==
    {EmptyCache,
     CacheSet(EmptyCache, "financial_metrics", SupplementKey("AAPL"),
              <<[ratios |-> FmpRatio, keymetrics |-> EmptyDict]>>)}

GetFinancialMetricsFinnhub_SupplementFatal(in) ==
    LET sup == Supplement(NeedsFmp(in.fmp_api_key, in.m.metric), in.ratios,
                          in.km, in.cache, in.req.ticker)
    IN  IF in.m.status # "ok" \/ (sup.sent # <<>> /\ sup.wrote = {})
        THEN [out |-> <<>>, sent |-> <<"finnhub">>, lookups |-> <<>>, cache |-> in.cache]
        ELSE [out  |-> <<FinnhubMetrics(in.req, [metric |-> in.m.metric,
                                                 market_cap |-> ProfileMarketCap(in.p)],
                                        sup.fmp_ratios, sup.fmp_keymetrics)>>,
              sent |-> <<"finnhub", "finnhub">> \o sup.sent,
              lookups |-> sup.lookups, cache |-> sup.cache]

\* api.py:130-257 as a whole.
GetFinancialMetricsFinnhub(in) ==
    IF in.m.status # "ok"
    THEN [out |-> <<>>, sent |-> <<"finnhub">>, lookups |-> <<>>, cache |-> in.cache]
    ELSE LET loc == [metric |-> in.m.metric, market_cap |-> ProfileMarketCap(in.p)]
             sup == Supplement(NeedsFmp(in.fmp_api_key, in.m.metric), in.ratios,
                               in.km, in.cache, in.req.ticker)
         IN  [out  |-> <<FinnhubMetrics(in.req, loc, sup.fmp_ratios,
                                        sup.fmp_keymetrics)>>,
              sent |-> <<"finnhub", "finnhub">> \o sup.sent,
              lookups |-> sup.lookups, cache |-> sup.cache]

\* api.py:114, 260, 332, 406
Adapters ==
    {"_get_prices_yahoo", "_get_prices_finnhub", "_get_financial_metrics_fmp",
     "_get_financial_metrics_finnhub"}

PureCalls ==
    [fn : {"_get_prices_yahoo"}, in : [resp : YahooResponses, req : PriceRequests]]
    \cup [fn : {"_get_prices_finnhub"},
          in : [resp : CandleResponses, req : PriceRequests]]
    \cup [fn : {"_get_financial_metrics_fmp"},
          in : [fmp_api_key : BOOLEAN, resp : FmpResponses, req : MetricsRequests]]
    \cup [fn : {"_get_financial_metrics_finnhub"},
          in : [m : MetricInputs, p : ProfileResponses, fmp_api_key : BOOLEAN,
                ratios : SupplementStatus, km : SupplementStatus,
                cache : SupplementCaches, req : MetricsRequests]]

\* The facades that build a cache key, and the key each builds
\* (api.py:595, 626, 698, 763).
KeyOps ==
    {"get_prices", "get_financial_metrics", "get_insider_trades", "get_company_news"}

CacheKey(op, req) ==
    CASE op = "get_prices" -> PricesKey(req)
      [] op = "get_financial_metrics" -> MetricsKey(req)
      [] OTHER -> FeedKey(req)

\* Tickers for the keys: two symbols, and one that ends the way the key of
\* a request without start_date goes on.
KeyTickers == {"AAPL", "A", "A_none"}

\* The arguments of a facade that go into its key.
KeyRequests(op) ==
    CASE op = "get_prices" ->
             [ticker : KeyTickers, start : {1, 2}, end : {2, 3}, period : {""},
              limit : {0}]
      [] op = "get_financial_metrics" ->
             [ticker : KeyTickers, start : {NoDate}, end : {2, 3},
              period : {"ttm", "annual"}, limit : {1, 10}]
      [] OTHER ->
             [ticker : KeyTickers, start : {NoDate, 1, 2}, end : {2, 3},
              period : {""}, limit : {1, 10}]

\* Two calls of one facade.
KeyCalls ==
    UNION {[fn : {"cache_key"}, in : [op : {op}, a : KeyRequests(op), b : KeyRequests(op)]] :
              op \in KeyOps}

\* The keys of the two calls, and the key under which the supplement for
\* the second call's ticker is stored (api.py:161).
ApplyCacheKey ==
    /\ pf.pc = "call"
    /\ pf.fn = "cache_key"
    /\ pf' = [pf EXCEPT !.pc = "done",
                        !.out = <<CacheKey(pf.in.op, pf.in.a),
                                  CacheKey(pf.in.op, pf.in.b),
                                  SupplementKey(pf.in.b.ticker)>>]
    /\ UNCHANGED <<rotVars, execVars, kw, facadeVars>>

\* The facades that call Financial Datasets (api.py:648, 689, 754).
FdOps == {"search_line_items", "get_insider_trades", "get_company_news"}

\* api.py:658-661, 705-708, 770-773: the headers of the request, from the
\* api_key argument and FINANCIAL_DATASETS_API_KEY.
FinancialDatasetsHeaders(api_key, env_key) == [X_API_KEY |-> api_key \/ env_key]

FdCalls == [fn : FdOps, in : [api_key : BOOLEAN, env_key : BOOLEAN]]

\* api.py:658-677, 704-719, 769-784: the headers are built and the first
\* request is sent, with or without the key header.
ApplyFinancialDatasets ==
    /\ pf.pc = "call"
    /\ pf.fn \in FdOps
    /\ pf' = [pf EXCEPT !.pc = "done",
                        !.out = <<FinancialDatasetsHeaders(pf.in.api_key,
                                                           pf.in.env_key)>>,
                        !.sent = <<"financial_datasets">>]
    /\ UNCHANGED <<rotVars, execVars, kw, facadeVars>>

\* api.py:601-614 on a cache miss: Yahoo's list, or Finnhub's when Yahoo's
\* is empty; the list is returned as the adapter built it.
GetPrices(in) ==
    LET y == GetPricesYahoo(in.yahoo, in.req)
    IN  IF y # <<>> THEN [out |-> y, sent |-> <<"yahoo">>]
        ELSE [out |-> GetPricesFinnhub(in.finnhub, in.req),
              sent |-> <<"yahoo", "finnhub">>]

GetPricesCalls ==
    [fn : {"get_prices"},
     in : [yahoo : YahooResponses, finnhub : CandleResponses, req : PriceRequests]]

ApplyGetPrices ==
    /\ pf.pc = "call"
    /\ pf.fn = "get_prices"
    /\ LET r == GetPrices(pf.in)
       IN  pf' = [pf EXCEPT !.pc = "done", !.out = r.out, !.sent = r.sent]
    /\ UNCHANGED <<rotVars, execVars, kw, facadeVars>>

PfDone(out, sent) == [pf EXCEPT !.pc = "done", !.out = out, !.sent = sent]

ApplyPricesYahoo ==
    /\ pf.pc = "call"
    /\ pf.fn = "_get_prices_yahoo"
    /\ pf' = PfDone(GetPricesYahoo(pf.in.resp, pf.in.req), <<"yahoo">>)
    /\ UNCHANGED <<rotVars, execVars, kw, facadeVars>>

ApplyPricesFinnhub ==
    /\ pf.pc = "call"
    /\ pf.fn = "_get_prices_finnhub"
    /\ pf' = PfDone(GetPricesFinnhub(pf.in.resp, pf.in.req), <<"finnhub">>)
    /\ UNCHANGED <<rotVars, execVars, kw, facadeVars>>

ApplyMetricsFmp ==
    /\ pf.pc = "call"
    /\ pf.fn = "_get_financial_metrics_fmp"
    /\ pf' = PfDone(GetFinancialMetricsFmp(pf.in.fmp_api_key, pf.in.resp, pf.in.req),
                    IF pf.in.fmp_api_key THEN <<"fmp">> ELSE <<>>)
    /\ UNCHANGED <<rotVars, execVars, kw, facadeVars>>

ApplyMetricsFinnhub ==
    /\ pf.pc = "call"
    /\ pf.fn = "_get_financial_metrics_finnhub"
    /\ LET r == GetFinancialMetricsFinnhub(pf.in)
       IN  pf' = [PfDone(r.out, r.sent) EXCEPT !.lookups = r.lookups,
                                               !.cache = r.cache]
    /\ UNCHANGED <<rotVars, execVars, kw, facadeVars>>

\* The adapter is called once more with the same arguments, on the cache
\* the first call left; Finnhub answers as before, FMP answers anew.
ApplyMetricsFinnhubAgain ==
    /\ pf.pc = "done"
    /\ pf.fn = "_get_financial_metrics_finnhub"
    /\ \E ratios \in SupplementStatus, km \in SupplementStatus :
         LET r == GetFinancialMetricsFinnhub(
                      [pf.in EXCEPT !.cache = pf.cache, !.ratios = ratios, !.km = km])
         IN  pf' = [pf EXCEPT !.pc = "done2",
                              !.cache = r.cache,
                              !.second = <<[ratios |-> ratios, km |-> km, out |-> r.out,
                                            sent |-> r.sent, lookups |-> r.lookups]>>]
    /\ UNCHANGED <<rotVars, execVars, kw, facadeVars>>

-----------------------------------------------------------------------------
(* Specifications *)

vars == <<finnhub_key_index, issued, observed, fr, mar, kw,
         cache, fc, lastCall, ncalls, tables, pf>>

Init ==
    /\ finnhub_key_index = 0
    /\ issued = <<>>
    /\ observed = <<>>
    /\ fr = FrIdle
    /\ mar = MarIdle
    /\ kw = [w \in Workers |-> KwIdle]
    /\ cache = EmptyCache
    /\ fc = [w \in Workers |-> FcIdle]
    /\ lastCall = NoCall
    /\ ncalls = 0
    /\ tables = {}
    /\ pf = PfIdle

\* One caller driving the two request executors.
Next ==
    \/ FinnhubCall
    \/ FinnhubAttempt
    \/ FinnhubReturn
    \/ MarCall
    \/ MarAttempt
    \/ MarReturn

Spec == Init /\ [][Next]_vars

\* Every started pass of a loop body completes: requests.get carries
\* timeout=10 (api.py:71) and the sleeps are finite.
FairSpec == Spec /\ WF_vars(FinnhubAttempt) /\ WF_vars(FinnhubReturn)

\* Several workers inside _get_next_finnhub_key.
NextConc ==
    \E w \in Workers :
        \/ KwCall(w)
        \/ KwReadKey(w)
        \/ KwLoad(w)
        \/ KwStore(w)
        \/ KwReturn(w)

SpecConc == Init /\ [][NextConc]_vars

\* The facades, called one call after the other.
Callers == {"w1"}

InitFacade ==
    /\ finnhub_key_index = 0
    /\ issued = <<>>
    /\ observed = <<>>
    /\ fr = FrIdle
    /\ mar = MarIdle
    /\ kw = [w \in Workers |-> KwIdle]
    /\ cache = EmptyCache
    /\ fc = [w \in Workers |-> FcIdle]
    /\ lastCall = NoCall
    /\ ncalls = 0
    /\ tables = {}
    /\ pf = PfIdle

NextFacade ==
    \E w \in Callers :
        \/ FacadeBegin(w)
        \/ PricesYahoo(w)
        \/ PricesFinnhub(w)
        \/ MetricsFinnhub(w)
        \/ MetricsSupplement(w)
        \/ MetricsFmp(w)
        \/ FeedPage(w)
        \/ SearchLineItems(w)
        \/ MarketCapFinnhub(w)
        \/ MarketCapFmp(w)
        \/ FacadeReturn(w)

SpecFacade == InitFacade /\ [][NextFacade]_vars

\* Facade calls of two threads at once, for a facade with a fallback chain
\* and one with a pagination loop.  The threads switch between the cache
\* lookup, each outbound request and the final cache write.
ConcurrentOps == {"get_prices", "get_insider_trades"}

ConcurrentBegin(w) ==
    /\ fc[w].pc = "idle"
    /\ ncalls < MaxCalls
    /\ \E op \in ConcurrentOps : \E req \in Requests(op) :
         /\ Cardinality(tables \cup {TableOf(op)}) <= MaxTables
         /\ tables' = tables \cup {TableOf(op)}
         /\ fc' = [fc EXCEPT ![w] = BeginFrame(op, req, cache, lastCall)]
    /\ ncalls' = ncalls + 1
    /\ UNCHANGED <<rotVars, execVars, kw, cache, lastCall, pf>>

NextFacadeConc ==
    \E w \in Workers :
        \/ ConcurrentBegin(w)
        \/ PricesYahoo(w)
        \/ PricesFinnhub(w)
        \/ FeedPage(w)
        \/ FacadeReturn(w)

SpecFacadeConc == InitFacade /\ [][NextFacadeConc]_vars

\* One adapter call on any of its inputs.
\* The signals an agent result may carry: the three the route counts, in
\* either case, and one it does not count.
Signals == {"BULLISH", "bullish", "BEARISH", "NEUTRAL", "ERROR"}

\* str.upper() on the signals.
Upper(s) == IF s = "bullish" THEN "BULLISH" ELSE s

MaxAgents == 3

\* AgentResult, n8n_analyze.py:43-50: the signal and the confidence.
AgentResultValues == [signal : Signals, confidence : {0, 80}]

AgentResultLists == UNION {[1..n -> AgentResultValues] : n \in 0..MaxAgents}

\* n8n_analyze.py:110-112: sum(1 for r in agent_results if r.signal.upper() == sig)
SignalCount(agent_results, sig) ==
    Cardinality({i \in DOMAIN agent_results : Upper(agent_results[i].signal) = sig})

RECURSIVE SumConfidence(_)
\* n8n_analyze.py:128: sum(r.confidence for r in agent_results)
SumConfidence(agent_results) ==
    IF agent_results = <<>> THEN 0
    ELSE Head(agent_results).confidence + SumConfidence(Tail(agent_results))

Max2(a, b) == IF a >= b THEN a ELSE b

Min2(a, b) == IF a <= b THEN a ELSE b

\* round(n / d, 0) of Python on an exact quotient: to the nearest integer,
\* a half to the even one.
RoundHalfEven(n, d) ==
    LET q == n \div d
        r == n % d
    IN  IF 2 * r > d \/ (2 * r = d /\ q % 2 = 1) THEN q + 1 ELSE q

AggregateSignals_TiesBullish(agent_results) ==
    IF agent_results = <<>>
    THEN [signal |-> "NEUTRAL", confidence |-> 0]
    ELSE LET bullish_count == SignalCount(agent_results, "BULLISH")
             bearish_count == SignalCount(agent_results, "BEARISH")
             neutral_count == SignalCount(agent_results, "NEUTRAL")
             total         == Len(agent_results)
             sig == IF bullish_count >= bearish_count /\ bullish_count > neutral_count
                    THEN "BULLISH"
                    ELSE IF bearish_count > bullish_count /\ bearish_count > neutral_count
                         THEN "BEARISH"
                         ELSE "NEUTRAL"
             weight == CASE sig = "BULLISH" -> bullish_count
                         [] sig = "BEARISH" -> bearish_count
                         [] OTHER -> Max2(neutral_count, Min2(bullish_count, bearish_count))
         IN  [signal |-> sig,
              confidence |-> RoundHalfEven(100 * SumConfidence(agent_results) * weight,
                                           total * total)]

\* n8n_analyze.py:100-131.  The confidence is in hundredths:
\* round(avg_confidence * weight, 2) with avg_confidence = sum / total and
\* weight = count / total, on the exact quotient.
AggregateSignals(agent_results) ==
    IF agent_results = <<>>
    THEN [signal |-> "NEUTRAL", confidence |-> 0]
    ELSE LET bullish_count == SignalCount(agent_results, "BULLISH")
             bearish_count == SignalCount(agent_results, "BEARISH")
             neutral_count == SignalCount(agent_results, "NEUTRAL")
             total         == Len(agent_results)
             sig == IF bullish_count > bearish_count /\ bullish_count > neutral_count
                    THEN "BULLISH"
                    ELSE IF bearish_count > bullish_count /\ bearish_count > neutral_count
                         THEN "BEARISH"
                         ELSE "NEUTRAL"
             weight == CASE sig = "BULLISH" -> bullish_count
                         [] sig = "BEARISH" -> bearish_count
                         [] OTHER -> Max2(neutral_count, Min2(bullish_count, bearish_count))
         IN  [signal |-> sig,
              confidence |-> RoundHalfEven(100 * SumConfidence(agent_results) * weight,
                                           total * total)]

AggregateCalls == [fn : {"aggregate_signals"}, in : AgentResultLists]

\* One call of aggregate_signals.
ApplyAggregateSignals ==
    /\ pf.pc = "call"
    /\ pf.fn = "aggregate_signals"
    /\ pf' = PfDone(<<AggregateSignals(pf.in)>>, <<>>)
    /\ UNCHANGED <<rotVars, execVars, kw, facadeVars>>

InitPure ==
    /\ finnhub_key_index = 0
    /\ issued = <<>>
    /\ observed = <<>>
    /\ fr = FrIdle
    /\ mar = MarIdle
    /\ kw = [w \in Workers |-> KwIdle]
    /\ cache = EmptyCache
    /\ fc = [w \in Workers |-> FcIdle]
    /\ lastCall = NoCall
    /\ ncalls = 0
    /\ tables = {}
    /\ pf \in {[PfIdle EXCEPT !.pc = "call", !.fn = c.fn, !.in = c.in] :
                 c \in PureCalls \cup KeyCalls \cup FdCalls \cup GetPricesCalls
                       \cup AggregateCalls}

NextPure ==
    \/ ApplyPricesYahoo
    \/ ApplyPricesFinnhub
    \/ ApplyMetricsFmp
    \/ ApplyMetricsFinnhub
    \/ ApplyMetricsFinnhubAgain
    \/ ApplyCacheKey
    \/ ApplyFinancialDatasets
    \/ ApplyGetPrices
    \/ ApplyAggregateSignals

SpecPure == InitPure /\ [][NextPure]_vars

-----------------------------------------------------------------------------
(* Claims about the cache-aside facades *)

CachedOps ==
    {"get_prices", "get_financial_metrics", "get_insider_trades", "get_company_news"}

ClassOf(op) ==
    CASE op = "get_prices" -> "Price"
      [] op = "get_financial_metrics" -> "FinancialMetrics"
      [] OTHER -> FeedClass(op)

\* The call of frame f follows a call of the same table with the same
\* parameters.
RepeatsPrevious(f) ==
    /\ f.pc # "idle"
    /\ f.pred.op # "none"
    /\ TableOf(f.op) # "none"
    /\ TableOf(f.op) = TableOf(f.pred.op)
    /\ f.req = f.pred.req

C2_HitReturnsEntry ==
    \A w \in Callers :
        LET f    == fc[w]
            kind == TableOf(f.op)
        IN  (f.pc # "idle" /\ kind # "none") =>
              /\ (f.key \in DOMAIN cache[kind]
                    /\ [kind |-> kind, key |-> f.key] \notin f.wrote) => f.hit
              /\ f.hit =>
                   /\ f.pc = "done"
                   /\ f.sent = <<>>
                   /\ f.tried = <<>>
                   /\ f.wrote = {}
                   /\ f.key \in DOMAIN cache[kind]
                   /\ f.op \in CachedOps =>
                        f.result = LoadAll(ClassOf(f.op), cache[kind][f.key])

C2_Witness ==
    \E w \in Callers :
        /\ fc[w].hit
        /\ fc[w].pc = "done"
        /\ fc[w].op \in CachedOps
        /\ fc[w].result # <<>>
        /\ fc[w].sent = <<>>

\* C3 as stated: a call of a cached kind that follows a call with the same
\* parameters builds the same cache key and finishes without any outbound
\* request.
C3_RepeatSendsNothing ==
    \A w \in Callers :
        (fc[w].pc = "done" /\ fc[w].op \in CachedOps /\ RepeatsPrevious(fc[w]))
            => (fc[w].key = fc[w].pred.key /\ fc[w].sent = <<>>)

\* C3 as amended: a call of a cached kind that follows a call with the same
\* parameters that returned a non-empty list builds the same cache key, is a
\* cache hit and sends no outbound request.
C3_RepeatAfterStored ==
    \A w \in Callers :
        (fc[w].op \in CachedOps /\ RepeatsPrevious(fc[w]) /\ ~fc[w].pred.empty)
            => /\ fc[w].key = fc[w].pred.key
               /\ fc[w].hit
               /\ fc[w].pc = "done"
               /\ fc[w].sent = <<>>

C3_Witness ==
    \E w \in Callers :
        /\ fc[w].pc = "done"
        /\ fc[w].op \in CachedOps
        /\ RepeatsPrevious(fc[w])
        /\ fc[w].op = fc[w].pred.op
        /\ ~fc[w].pred.empty
        /\ fc[w].hit
        /\ fc[w].sent = <<>>

\* The order of the adapters in a fallback chain: api.py:602-607, 633-638.
Chain(op) ==
    IF op = "get_financial_metrics" THEN <<"finnhub", "fmp">> ELSE <<"yahoo", "finnhub">>

\* C4: in get_prices and get_financial_metrics the adapters are invoked in
\* the order of the chain; an adapter is invoked only after every earlier
\* one returned an empty list, and a finished miss has invoked the next
\* adapter whenever the previous one returned empty; the result is the list
\* of the last adapter invoked, which is the first non-empty one if there
\* is any (no list is put together from two adapters).
C4_FallbackChain ==
    \A w \in Callers :
        LET f == fc[w]
            n == Len(f.tried)
        IN  f.op \in {"get_prices", "get_financial_metrics"} =>
              /\ n <= Len(Chain(f.op))
              /\ \A i \in 1..n : f.tried[i].prov = Chain(f.op)[i]
              /\ \A i \in 1..(n - 1) : f.tried[i].out = <<>>
              /\ (f.pc = "done" /\ ~f.hit) =>
                   /\ n >= 1
                   /\ f.result = f.tried[n].out
                   /\ f.tried[n].out = <<>> => n = Len(Chain(f.op))

C4_Witness ==
    \E w \in Callers :
        /\ fc[w].pc = "done"
        /\ fc[w].op = "get_financial_metrics"
        /\ Len(fc[w].tried) = 2
        /\ fc[w].tried[1].out = <<>>
        /\ fc[w].result # <<>>
        /\ fc[w].result = fc[w].tried[2].out

\* C5: no entry point raises: every finished call of every resource kind
\* has handed back records or an empty sequence.
C5_NeverRaises == \A w \in Callers : fc[w].raised = ""

-----------------------------------------------------------------------------
(* Claims about key rotation and the request executors *)

\* C6: with a single caller every acquisition reads the counter value left
\* by the one before it, returns FINNHUB_KEYS[counter mod N] and increments
\* the counter; so any N consecutive acquisitions return the N credentials
\* once each, in cyclic pool order, and acquisition i+N returns the
\* credential of acquisition i.
C6_RoundRobin ==
    /\ Len(observed) = Len(issued)
    /\ finnhub_key_index = Len(issued)
    /\ \A i \in 1..Len(issued) :
         /\ observed[i] = i - 1
         /\ issued[i] = FINNHUB_KEYS[(observed[i] % NumKeys) + 1]
         /\ i + NumKeys <= Len(issued) => issued[i + NumKeys] = issued[i]
         /\ i + NumKeys - 1 <= Len(issued) =>
              /\ {issued[j] : j \in i..(i + NumKeys - 1)}
                    = {FINNHUB_KEYS[k] : k \in 1..NumKeys}
              /\ \A j \in i..(i + NumKeys - 2) :
                    \E k \in 1..NumKeys :
                       /\ issued[j] = FINNHUB_KEYS[k]
                       /\ issued[j + 1] = FINNHUB_KEYS[(k % NumKeys) + 1]

\* C6 witness: an (N+1)th acquisition has happened.
C6_Witness == Len(issued) >= NumKeys + 1

\* C7: concurrent acquisitions never observe the same counter value, and K
\* completed acquisitions leave the counter advanced by exactly K.
C7_AtomicAcquire ==
    /\ \A i, j \in 1..Len(observed) : i # j => observed[i] # observed[j]
    /\ InFlight = {} => finnhub_key_index = Len(issued)

FrRetryable == {"r429", "timeout"}

FrFatal == {"r403", "other", "ok_error", "ok_badjson"}

C8_Bounded ==
    /\ fr.pc # "idle" => fr.sent <= fr.max_retries * NumKeys
    /\ fr.pc = "loop" =>
         /\ fr.sent = fr.attempt
         /\ fr.attempt < fr.max_retries * NumKeys
         /\ fr.last.cls \in FrRetryable \cup {"none"}
         /\ fr.result = "unset"
    /\ fr.pc = "done" =>
         \/ /\ fr.last.cls = "ok"
            /\ fr.result = fr.last.payload
            /\ fr.result \in Payloads
         \/ /\ fr.last.cls \in FrFatal \cup {"conn_error"}
            /\ fr.result = None
         \/ /\ fr.last.cls \in FrRetryable
            /\ fr.sent = fr.max_retries * NumKeys
            /\ fr.result = None

\* C8: one _finnhub_request call sends at most max_retries * len(FINNHUB_KEYS)
\* requests whatever the responses are, and it always ends: with the payload
\* of the first successful response (every response before it was a 429 or a
\* timeout), or with None after a fatal response or after the last attempt
\* of the budget.
C8_BoundedTermination ==
    /\ []C8_Bounded
    /\ (fr.pc = "loop") ~> (fr.pc = "done")

\* C8 witness: a call that used up its whole budget and returned None.
C8_Witness ==
    /\ fr.pc = "done"
    /\ fr.result = None
    /\ fr.last.cls \in FrRetryable
    /\ fr.sent = fr.max_retries * NumKeys
    /\ fr.max_retries >= 2

\* C9: a 403, any other status that is neither 200 nor 429, a 200 whose body
\* carries an error, and an unparseable body end the call at once with None:
\* the step after such a response sends nothing, it only hands None back.
C9_FatalNoRetry ==
    /\ [](fr.last.cls \in FrFatal => (fr.pc = "done" /\ fr.result = None))
    /\ [][fr.last.cls \in FrFatal => fr' = FrIdle]_vars

\* C9 witness: a fatal response seen while most of the budget was left.
C9_Witness ==
    /\ fr.last.cls \in FrFatal
    /\ fr.pc = "done"
    /\ fr.sent >= 2
    /\ fr.sent + 2 <= fr.max_retries * NumKeys

\* C10: under both executors a transport timeout is not fatal; it uses up
\* one attempt and the request is retried while attempts remain.
C10_TimeoutRetried ==
    /\ (fr.last.cls = "timeout" /\ fr.sent < fr.max_retries * NumKeys)
          => fr.pc = "loop"
    /\ (mar.last = "timeout" /\ mar.sent < mar.max_retries + 1)
          => mar.pc = "loop"

\* C11: in _make_api_request the sleep after the rate-limited attempt with
\* index i (from 0) is 60 + 30 * i: the k-th sleep of a request follows
\* attempt k - 1, and the delays of one request never decrease.
C11_LinearBackoff ==
    /\ mar.pc = "loop" => Len(mar.delays) = mar.attempt
    /\ \A k \in 1..Len(mar.delays) :
         /\ mar.delays[k] = 60 + 30 * (k - 1)
         /\ k > 1 => mar.delays[k - 1] <= mar.delays[k]

\* C11 witness: a request that slept three times.
C11_Witness == Len(mar.delays) >= 3 /\ mar.delays[3] = 120

-----------------------------------------------------------------------------
(* Claims about pagination *)

FeedOps == {"get_insider_trades", "get_company_news"}

\* The records a step of frame f to frame g has added to the accumulated
\* list: the page of that step (none if the request failed).
PageAdded(f, g) == SubSeq(g.acc, Len(f.acc) + 1, Len(g.acc))

\* C13: a pass of the pagination loop is followed by another page request
\* exactly if a start_date was given, the page was non-empty, it held
\* `limit` records and its earliest date is later than start_date; without
\* a start_date the call makes one page request and returns its records.
C13_PageContinuation ==
    [][\A w \in Callers :
          (fc[w].pc = "page" /\ fc'[w] # fc[w]) =>
             LET f    == fc[w]
                 g    == fc'[w]
                 page == PageAdded(f, g)
             IN  /\ Len(g.sent) = Len(f.sent) + 1
                 /\ g.pc \in {"page", "done"}
                 /\ (g.pc = "page") <=>
                       /\ f.req.start # NoDate
                       /\ page # <<>>
                       /\ Len(page) = f.req.limit
                       /\ MinDate(f.op, page) > f.req.start
                 /\ g.pc = "page" => g.cursor = MinDate(f.op, page)
                 /\ f.req.start = NoDate =>
                       /\ Len(g.sent) = 1
                       /\ g.raised = "" => g.result = page]_vars

\* C13 witness: a second page was requested after a full page, and the call
\* ended on a short page.
C13_Witness ==
    \E w \in Callers :
        /\ fc[w].op \in FeedOps
        /\ fc[w].pc = "done"
        /\ Len(fc[w].sent) = 2
        /\ Len(fc[w].acc) = 3

\* The upstream records a call has been given so far.
Delivered(f) == {f.acc[i] : i \in 1..Len(f.acc)}

\* ceil(a / b)
CeilDiv(a, b) == (a + b - 1) \div b

\* C14: the pagination loop ends after at most ceil(total / limit) + 1 page
\* requests, total being the number of matching upstream records; stated
\* for the provider that holds exactly the records it has delivered: a call
\* about to send one more page request stays within that number.
C14_PageRequestsBounded ==
    \A w \in Callers :
        (fc[w].op \in FeedOps /\ fc[w].pc = "page") =>
            Len(fc[w].sent) + 1
                <= CeilDiv(Cardinality(Delivered(fc[w])), fc[w].req.limit) + 1

\* C15: a full page whose earliest date is not earlier than the cursor it was
\* requested with ends the call with PaginationCursorStalled; the same
\* cursor is not requested again.
C15_StallStops ==
    [][\A w \in Callers :
          LET f    == fc[w]
              g    == fc'[w]
              page == PageAdded(f, g)
          IN  (/\ f.pc = "page"
               /\ g # f
               /\ f.req.start # NoDate
               /\ Len(page) = f.req.limit
               /\ MinDate(f.op, page) >= f.cursor)
                  => (g.pc = "done" /\ g.raised = "PaginationCursorStalled")]_vars

-----------------------------------------------------------------------------
(* Claims about get_market_cap *)

\* What level 2 yields from the list get_financial_metrics returned.
FirstMarketCap(result) ==
    IF result # <<>> THEN result[1].f.market_cap ELSE NoneNum

\* C16: get_market_cap consults the Finnhub profile, then the market_cap of
\* the first record of get_financial_metrics, then the FMP profile, in that
\* order; a level is consulted exactly when every earlier one yielded null
\* or zero, and the value returned is that of the first level that yielded
\* a non-null, non-zero value.
C16_MarketCapLevels ==
    \A w \in Callers :
       LET f == fc[w]
           n == Len(f.levels)
       IN  f.op = "get_market_cap" =>
             /\ n <= 3
             /\ \A i \in 1..n : f.levels[i].level = i
             /\ \A i \in 1..n : i < n => Falsy(f.levels[i].value)
             /\ n >= 2 => f.levels[2].value = FirstMarketCap(f.result)
             /\ f.pc = "done" =>
                  /\ n >= 1
                  /\ f.value = f.levels[n].value
                  /\ Falsy(f.levels[n].value) => n = 3

\* get_market_cap returned the FMP profile's value after the Finnhub profile
\* gave nothing and the first metrics record held a market_cap of 0.
C16_Witness ==
    \E w \in Callers :
       /\ fc[w].op = "get_market_cap"
       /\ fc[w].pc = "done"
       /\ Len(fc[w].levels) = 3
       /\ fc[w].result # <<>>
       /\ fc[w].levels[2].value = Num(0)
       /\ ~Falsy(fc[w].value)

-----------------------------------------------------------------------------
(* Claims about the provider adapters *)

\* The class of the records an adapter builds.
RecordClass(fn) ==
    IF fn \in {"_get_prices_yahoo", "_get_prices_finnhub"} THEN "Price"
    ELSE "FinancialMetrics"

\* An outbound call of the adapter failed, or parsing its body did: no
\* usable answer, no API key, or a candle inside the requested range whose
\* values are not numbers.
AdapterFailed(fn, in) ==
    CASE fn = "_get_prices_yahoo" -> in.resp.status # "ok"
      [] fn = "_get_prices_finnhub" ->
             \/ in.resp.status # "ok"
             \/ \E i \in 1..Len(in.resp.rows) :
                   /\ ~OutOfRange(in.resp.rows[i].t, in.req)
                   /\ ~in.resp.rows[i].ok
      [] fn = "_get_financial_metrics_fmp" -> ~in.fmp_api_key \/ in.resp.status # "ok"
      [] fn = "_get_financial_metrics_finnhub" -> in.m.status # "ok"
      [] OTHER -> FALSE

\* C17: a provider adapter returns a list of canonical records, and the
\* empty list when one of its outbound calls or the parsing of a body
\* failed; what it hands to the fallback chain is always a list.
C17_AdapterAbsorbs ==
    pf.pc = "done" /\ pf.fn \in Adapters =>
       /\ DOMAIN pf.out = 1..Len(pf.out)
       /\ \A i \in 1..Len(pf.out) : pf.out[i].cls = RecordClass(pf.fn)
       /\ AdapterFailed(pf.fn, pf.in) => pf.out = <<>>

\* _get_prices_finnhub returned [] for a body with status "ok" whose candle
\* inside the range could not be parsed.
C17_Witness ==
    /\ pf.pc = "done"
    /\ pf.fn = "_get_prices_finnhub"
    /\ pf.in.resp.status = "ok"
    /\ AdapterFailed(pf.fn, pf.in)
    /\ pf.out = <<>>

-----------------------------------------------------------------------------
(* Claims about cache keys *)

\* C18: two requests of one facade get the same cache key exactly when they
\* agree on ticker, start date (its absence included), end date, period and
\* limit; a request without start_date never has the key of one with a
\* start date; and the key of a metrics request is never the key a
\* supplement is stored under.
C18_KeyInjective ==
    pf.pc = "done" /\ pf.fn = "cache_key" =>
       /\ pf.out[1] = pf.out[2] <=> pf.in.a = pf.in.b
       /\ (pf.in.a.start = NoDate) # (pf.in.b.start = NoDate) => pf.out[1] # pf.out[2]
       /\ pf.in.op = "get_financial_metrics" => pf.out[1] # pf.out[3]

\* Two insider-trade requests that differ only in one having no start_date
\* got their keys, the ticker being one that ends in "_none".
C18_Witness ==
    /\ pf.pc = "done"
    /\ pf.fn = "cache_key"
    /\ pf.in.op = "get_insider_trades"
    /\ pf.in.a.start = NoDate
    /\ pf.in.b = [pf.in.a EXCEPT !.start = 1]
    /\ pf.in.a.ticker = "A_none"
    /\ pf.out[1] # pf.out[2]

-----------------------------------------------------------------------------
(* Claims about the record built by _get_financial_metrics_finnhub *)

\* The first candidate that is present and not null; None if there is none.
RECURSIVE FirstPresent(_)
FirstPresent(cands) ==
    IF cands = <<>> THEN NoneNum
    ELSE IF cands[1].some THEN cands[1] ELSE FirstPresent(Tail(cands))

\* A call of _get_financial_metrics_finnhub that built a record.
BuiltRecord ==
    /\ pf.pc = "done"
    /\ pf.fn = "_get_financial_metrics_finnhub"
    /\ pf.out # <<>>

\* The two FMP dicts the call had at api.py:193.
FmpDicts(in) ==
    Supplement(NeedsFmp(in.fmp_api_key, in.m.metric), in.ratios, in.km, in.cache,
               in.req.ticker)

\* C19: each field of the record built by _get_financial_metrics_finnhub
\* holds the first candidate of its list that is present and not null, a
\* candidate of 0 included.
C19_FirstPresentCandidate ==
    BuiltRecord =>
       LET rec    == pf.out[1].f
           metric == pf.in.m.metric
           fmp    == FmpDicts(pf.in)
       IN  /\ rec.peg_ratio =
                FirstPresent(<<metric.pegRatio,
                               fmp.fmp_ratios.priceToEarningsGrowthRatio>>)
           /\ rec.return_on_invested_capital =
                FirstPresent(<<metric.roicTTM,
                               fmp.fmp_keymetrics.returnOnInvestedCapital>>)
           /\ rec.free_cash_flow_per_share =
                FirstPresent(<<metric.freeCashFlowPerShareTTM,
                               fmp.fmp_ratios.freeCashFlowPerShare>>)
           /\ rec.gross_margin =
                FirstPresent(<<metric.grossMarginTTM,
                               fmp.fmp_ratios.grossProfitMargin>>)

\* C20: with an FMP key, nothing cached and both FMP requests answered, a
\* field Finnhub lacks and FMP supplies holds FMP's value in the record,
\* and every field Finnhub supplies holds Finnhub's value.
C20_SecondaryFillsGaps ==
    (/\ BuiltRecord
     /\ pf.in.fmp_api_key
     /\ pf.in.cache = EmptyCache
     /\ pf.in.ratios = "ok"
     /\ pf.in.km = "ok") =>
       LET rec    == pf.out[1].f
           metric == pf.in.m.metric
           Holds(a, b, x) == IF a.some THEN x = a ELSE (b.some => x = b)
       IN  /\ Holds(metric.pegRatio, FmpRatio.priceToEarningsGrowthRatio,
                    rec.peg_ratio)
           /\ Holds(metric.roicTTM, FmpKeyMetric.returnOnInvestedCapital,
                    rec.return_on_invested_capital)
           /\ Holds(metric.freeCashFlowPerShareTTM, FmpRatio.freeCashFlowPerShare,
                    rec.free_cash_flow_per_share)
           /\ Holds(metric.grossMarginTTM, FmpRatio.grossProfitMargin,
                    rec.gross_margin)

\* C21: a field of the record for which no consulted provider response held
\* a value is null, never 0: market_cap when the profile holds no
\* marketCapitalization, and each mapped field when neither the Finnhub
\* metric nor the FMP dict holds its source field.
C21_UnknownIsNull ==
    BuiltRecord =>
       LET rec    == pf.out[1].f
           metric == pf.in.m.metric
           fmp    == FmpDicts(pf.in)
           Unknown(a, b, x) == (~a.some /\ ~b.some) => x = NoneNum
       IN  /\ ~(pf.in.p.status = "ok" /\ pf.in.p.marketCapitalization.some)
                 => rec.market_cap = NoneNum
           /\ Unknown(metric.pegRatio, fmp.fmp_ratios.priceToEarningsGrowthRatio,
                      rec.peg_ratio)
           /\ Unknown(metric.roicTTM, fmp.fmp_keymetrics.returnOnInvestedCapital,
                      rec.return_on_invested_capital)
           /\ Unknown(metric.freeCashFlowPerShareTTM,
                      fmp.fmp_ratios.freeCashFlowPerShare,
                      rec.free_cash_flow_per_share)
           /\ Unknown(metric.grossMarginTTM, fmp.fmp_ratios.grossProfitMargin,
                      rec.gross_margin)

-----------------------------------------------------------------------------
(* Claims about credentials *)

InSeq(x, xs) == \E i \in 1..Len(xs) : xs[i] = x

\* C22: a provider without a configured credential gets no request: FMP
\* from _get_financial_metrics_fmp and from the supplement of
\* _get_financial_metrics_finnhub, Financial Datasets from search_line_items,
\* get_insider_trades and get_company_news.
C22_NoCredentialNoRequest ==
    pf.pc = "done" =>
       /\ pf.fn \in {"_get_financial_metrics_fmp", "_get_financial_metrics_finnhub"}
             /\ ~pf.in.fmp_api_key
          => ~InSeq("fmp", pf.sent)
       /\ pf.fn \in FdOps /\ ~pf.in.api_key /\ ~pf.in.env_key
          => ~InSeq("financial_datasets", pf.sent)

-----------------------------------------------------------------------------
(* Claims about the round trip through the cache *)

-----------------------------------------------------------------------------
(* Claims about get_prices *)

\* The candles of the provider whose list get_prices returned.
ProviderRows(in) ==
    IF GetPricesYahoo(in.yahoo, in.req) # <<>> THEN in.yahoo.rows ELSE in.finnhub.rows

\* C24: get_prices returns exactly the provider's records dated inside
\* [start_date, end_date], none outside, in ascending order of date,
\* whatever the order in which the provider delivered them.
C24_WindowSorted ==
    (pf.pc = "done" /\ pf.fn = "get_prices" /\ pf.out # <<>>) =>
       LET rows == ProviderRows(pf.in)
           kept == SelectSeq(rows, LAMBDA r : ~OutOfRange(r.t, pf.in.req) /\ r.ok)
       IN  /\ {pf.out[i].f.time : i \in 1..Len(pf.out)} = {kept[i].t : i \in 1..Len(kept)}
           /\ Len(pf.out) = Len(kept)
           /\ \A i \in 1..Len(pf.out) : ~OutOfRange(pf.out[i].f.time, pf.in.req)
           /\ \A i, j \in 1..Len(pf.out) :
                 i < j => pf.out[i].f.time <= pf.out[j].f.time

-----------------------------------------------------------------------------
(* Claims about the FMP supplement *)

\* A call of _get_financial_metrics_finnhub whose stock/metric request gave
\* a metric.
MetricsAnswered ==
    /\ pf.pc = "done"
    /\ pf.fn = "_get_financial_metrics_finnhub"
    /\ pf.in.m.status = "ok"

\* One of the critical fields is absent or null in the metric.
LacksCritical(metric) ==
    \/ ~metric.pegRatio.some
    \/ ~metric.roicTTM.some
    \/ ~metric.freeCashFlowPerShareTTM.some

\* C25: _get_financial_metrics_finnhub sends FMP requests, and looks the
\* supplement up in the cache, only with an FMP key and a metric that lacks
\* pegRatio, roicTTM or freeCashFlowPerShareTTM; with all three present it
\* does neither.
C25_SupplementOnlyWhenNeeded ==
    MetricsAnswered =>
       /\ (InSeq("fmp", pf.sent) \/ pf.lookups # <<>>)
             => (pf.in.fmp_api_key /\ LacksCritical(pf.in.m.metric))
       /\ ~LacksCritical(pf.in.m.metric)
             => (~InSeq("fmp", pf.sent) /\ pf.lookups = <<>>)

\* The supplement was requested from FMP for a metric without pegRatio; the
\* call had an FMP key and nothing cached.
C25_Witness ==
    /\ MetricsAnswered
    /\ pf.in.fmp_api_key
    /\ ~pf.in.m.metric.pegRatio.some
    /\ pf.in.m.metric.roicTTM.some
    /\ pf.in.m.metric.freeCashFlowPerShareTTM.some
    /\ pf.lookups # <<>>
    /\ InSeq("fmp", pf.sent)

\* The supplement for the ticker of frame f was in the cache before the
\* call of f began its own supplement.
SupplementStored(f, c) ==
    /\ SupplementKey(f.req.ticker) \in DOMAIN c["financial_metrics"]
    /\ [kind |-> "financial_metrics", key |-> SupplementKey(f.req.ticker)]
          \notin f.wrote

SupplementFailed ==
    /\ MetricsAnswered
    /\ pf.in.fmp_api_key
    /\ LacksCritical(pf.in.m.metric)
    /\ pf.in.cache = EmptyCache
    /\ pf.in.ratios # "ok" \/ pf.in.km # "ok"

\* C27: when a request of the supplement fails, _get_financial_metrics_finnhub
\* still returns one record; each field holds Finnhub's value where Finnhub
\* has one, and when the ratios request raised no field comes from FMP.
C27_SupplementNonFatal ==
    SupplementFailed =>
       /\ Len(pf.out) = 1
       /\ pf.out[1].cls = "FinancialMetrics"
       /\ LET rec    == pf.out[1].f
              metric == pf.in.m.metric
          IN  /\ rec.ticker = pf.in.req.ticker
              /\ rec.market_cap = ProfileMarketCap(pf.in.p)
              /\ ~Falsy(metric.pegRatio) => rec.peg_ratio = metric.pegRatio
              /\ ~Falsy(metric.roicTTM) => rec.return_on_invested_capital = metric.roicTTM
              /\ ~Falsy(metric.freeCashFlowPerShareTTM)
                    => rec.free_cash_flow_per_share = metric.freeCashFlowPerShareTTM
              /\ ~Falsy(metric.grossMarginTTM) => rec.gross_margin = metric.grossMarginTTM
              /\ pf.in.ratios = "exc" =>
                    /\ rec.peg_ratio = PyOr(metric.pegRatio, NoneNum)
                    /\ rec.return_on_invested_capital = PyOr(metric.roicTTM, NoneNum)

\* The ratios request of the supplement raised and the call returned a
\* record with Finnhub's roicTTM and no peg ratio.
C27_Witness ==
    /\ SupplementFailed
    /\ pf.in.ratios = "exc"
    /\ ~pf.in.m.metric.pegRatio.some
    /\ pf.in.m.metric.roicTTM = Num(1)
    /\ InSeq("fmp", pf.sent)
    /\ Len(pf.out) = 1
    /\ pf.out[1].f.return_on_invested_capital = Num(1)
    /\ pf.out[1].f.peg_ratio = NoneNum

-----------------------------------------------------------------------------
(* Claims about the cooldown of _finnhub_request *)

\* The pool of credentials.
KeyPool == {FINNHUB_KEYS[i] : i \in 1..Len(FINNHUB_KEYS)}

\* C28: in _finnhub_request a pass that got a 429 sleeps the cooldown of 5
\* exactly when the credentials rate-limited since the last reset, this
\* one included, are the whole pool, and then the set is empty; otherwise
\* it does not sleep and the credential joins the set; either way the
\* attempt counter goes on by one and the next pass takes the next
\* credential.  No other pass sleeps.
C28_CooldownWhenPoolCovered ==
    [][(fr.pc = "loop" /\ fr'.sent = fr.sent + 1) =>
          LET tried == fr.keys_tried \cup {KeyAt(finnhub_key_index)}
          IN  IF fr'.last.cls = "r429"
              THEN /\ fr'.attempt = fr.attempt + 1
                   /\ finnhub_key_index' = finnhub_key_index + 1
                   /\ fr'.pc = "loop" <=> fr'.attempt < FinnhubBudget(fr.max_retries)
                   /\ IF tried = KeyPool
                      THEN /\ fr'.slept = fr.slept + FINNHUB_COOLDOWN
                           /\ fr'.keys_tried = {}
                      ELSE /\ fr'.slept = fr.slept
                           /\ fr'.keys_tried = tried
              ELSE /\ fr'.slept = fr.slept
                   /\ fr'.keys_tried = fr.keys_tried
    ]_vars

\* After one cooldown the call is in its fifth pass: the set holds the one
\* credential rate-limited since the reset and the counter stands at 4.
C28_Witness ==
    /\ fr.pc = "loop"
    /\ fr.slept = FINNHUB_COOLDOWN
    /\ fr.attempt = 4
    /\ Cardinality(fr.keys_tried) = 1
    /\ fr.last.cls = "r429"

-----------------------------------------------------------------------------
(* Claims about the order of the price providers *)

\* C29: get_prices uses the chain Finnhub -> Yahoo: the first adapter it
\* invokes is Finnhub's, and Yahoo's is invoked only after Finnhub's
\* returned no records.
C29_FinnhubThenYahoo ==
    \A w \in Callers :
       LET f == fc[w]
           n == Len(f.tried)
       IN  f.op = "get_prices" =>
             /\ n >= 1 => f.tried[1].prov = "finnhub"
             /\ \A i \in 1..n :
                   f.tried[i].prov = "yahoo" =>
                      /\ i = 2
                      /\ f.tried[1].out = <<>>

-----------------------------------------------------------------------------
(* Claims about concurrent facade calls *)

\* Two calls of one facade with the same key that both missed the cache and
\* have both finished.
BothMissed(a, b) ==
    /\ a # b
    /\ fc[a].pc = "done" /\ fc[b].pc = "done"
    /\ fc[a].op = fc[b].op
    /\ fc[a].key = fc[b].key
    /\ ~fc[a].hit /\ ~fc[b].hit
    /\ fc[a].raised = "" /\ fc[b].raised = ""

\* No entry is empty; after two concurrent misses of one key the entry is
\* absent, when both returned nothing, or it is the whole list one of them
\* returned.
C30_EntryIsOneResult ==
    /\ \A kind \in CacheKinds : \A key \in DOMAIN cache[kind] : cache[kind][key] # <<>>
    /\ \A a, b \in Workers :
          BothMissed(a, b) =>
             LET kind == TableOf(fc[a].op)
                 key  == fc[a].key
             IN  IF key \in DOMAIN cache[kind]
                 THEN \E w \in {a, b} :
                         /\ fc[w].result # <<>>
                         /\ cache[kind][key] = DumpAll(fc[w].result)
                 ELSE fc[a].result = <<>> /\ fc[b].result = <<>>

\* A step that changes the entry of a key is the last step of a call, and
\* the entry after it is the whole list that call returns.
C30_WriterStoresOwnResult ==
    \A kind \in CacheKinds : \A key \in DOMAIN cache'[kind] :
       (key \notin DOMAIN cache[kind] \/ cache'[kind][key] # cache[kind][key])
          => \E w \in Workers :
                /\ fc[w].pc # "done" /\ fc'[w].pc = "done"
                /\ fc'[w].key = key
                /\ TableOf(fc'[w].op) = kind
                /\ fc'[w].result # <<>>
                /\ cache'[kind][key] = DumpAll(fc'[w].result)

\* C30: when calls with the same cache key run concurrently and both miss,
\* the cache entry of the key, once they have finished, is absent or is the
\* complete list returned by one of them, the one that wrote last; it is
\* never put together from two calls' records and never an empty list.
C30_LastWriterWins == []C30_EntryIsOneResult /\ [][C30_WriterStoresOwnResult]_vars

\* Two concurrent get_prices calls of one key both missed and returned
\* different lists; the entry is the list of the one that wrote last.
C30_Witness ==
    /\ BothMissed("w1", "w2")
    /\ fc["w1"].result # <<>>
    /\ fc["w2"].result # <<>>
    /\ fc["w1"].result # fc["w2"].result
    /\ cache[TableOf(fc["w1"].op)][fc["w1"].key] = DumpAll(fc["w2"].result)

-----------------------------------------------------------------------------
(* Claims about the records of a paginated call *)

\* C31: the list a paginated get_insider_trades or get_company_news call
\* returns holds each upstream record at most once, also when the earliest
\* date of a page, the inclusive upper bound of the next request, is the
\* date of records already received.
C31_NoDuplicateRecords ==
    \A w \in Callers :
       (fc[w].op \in FeedOps /\ fc[w].pc = "done" /\ fc[w].req.start # NoDate) =>
          \A i, j \in 1..Len(fc[w].result) :
             i # j => fc[w].result[i] # fc[w].result[j]

\* The answers to a page request that count as a failed request: a status
\* other than 200 (a last 429 among them), or a body that does not parse.
FailedPage == {"r429", "other", "badjson"}

\* A page request after the first fails with records accumulated: the call
\* ends, returns the accumulated records and stores them under its key.
C32_FailedPageStep ==
    \A w \in Callers :
       (/\ fc[w].op \in FeedOps
        /\ fc[w].pc = "page"
        /\ fc[w].acc # <<>>
        /\ fc'[w] # fc[w]
        /\ fc'[w].last \in FailedPage)
       => /\ fc'[w].pc = "done"
          /\ fc'[w].raised = ""
          /\ Len(fc'[w].sent) = Len(fc[w].sent) + 1
          /\ fc'[w].result = fc[w].acc
          /\ fc'[w].key = FeedKey(fc[w].req)
          /\ fc'[w].key \in DOMAIN cache'[FeedKind(fc[w].op)]
          /\ cache'[FeedKind(fc[w].op)][fc'[w].key] = DumpAll(fc[w].acc)

\* A call that follows a call of the same facade with the same parameters
\* that stored a list gets that list from the cache and sends nothing.
C32_LaterCallsHit ==
    \A w \in Callers :
       (/\ fc[w].op \in FeedOps
        /\ RepeatsPrevious(fc[w])
        /\ fc[w].op = fc[w].pred.op
        /\ fc[w].pred.stored # <<>>)
       => /\ fc[w].hit
          /\ fc[w].sent = <<>>
          /\ fc[w].result = fc[w].pred.stored

\* C32: when a page request after the first fails (status other than 200,
\* unparseable body) with at least one page accumulated, get_insider_trades
\* and get_company_news stop, return the records accumulated so far and
\* store that list under the key of the whole date window; later calls with
\* the same parameters get it from the cache without a request.
C32_TruncatedListCached == [][C32_FailedPageStep]_vars /\ []C32_LaterCallsHit

\* The second page request came back unparseable; the call returned the two
\* records of the first page and they are the cache entry of its key.
C32_Witness ==
    \E w \in Callers :
       /\ fc[w].op \in FeedOps
       /\ fc[w].pc = "done"
       /\ fc[w].last = "badjson"
       /\ Len(fc[w].sent) = 2
       /\ Len(fc[w].result) = 2
       /\ fc[w].key \in DOMAIN cache[FeedKind(fc[w].op)]
       /\ cache[FeedKind(fc[w].op)][fc[w].key] = DumpAll(fc[w].result)

-----------------------------------------------------------------------------
(* Claims about a supplement that brought nothing *)

\* The adapter needed the supplement, found none in the cache, and neither
\* FMP answer of the first call held data.
SupplementEmpty ==
    /\ pf.fn = "_get_financial_metrics_finnhub"
    /\ pf.in.m.status = "ok"
    /\ pf.in.fmp_api_key
    /\ LacksCritical(pf.in.m.metric)
    /\ pf.in.cache = EmptyCache
    /\ pf.in.ratios # "ok"
    /\ pf.in.km # "ok"

\* C33: when neither FMP answer holds data (a status other than 200, an empty
\* list or an exception), _get_financial_metrics_finnhub leaves the cache
\* without an entry under the supplement key, and the next call of the adapter
\* for the ticker, the metric still lacking a critical field, looks the key up
\* and sends the FMP requests again; when that call gets no data either, the
\* cache stays without the entry.
C33_EmptySupplementNotStored ==
    SupplementEmpty =>
       /\ pf.pc = "done" =>
             /\ InSeq("fmp", pf.sent)
             /\ pf.cache = EmptyCache
       /\ pf.pc = "done2" =>
             LET again == pf.second[1]
             IN  /\ again.lookups = <<SupplementKey(pf.in.req.ticker)>>
                 /\ InSeq("fmp", again.sent)
                 /\ Len(again.out) = 1
                 /\ (again.ratios # "ok" /\ again.km # "ok") => pf.cache = EmptyCache

\* Both FMP answers of the first call were empty lists, and the second call
\* sent both FMP requests again, this time with data.
C33_Witness ==
    /\ SupplementEmpty
    /\ pf.pc = "done2"
    /\ pf.in.ratios = "nothing"
    /\ pf.in.km = "nothing"
    /\ ~pf.in.m.metric.pegRatio.some
    /\ pf.sent = <<"finnhub", "finnhub", "fmp", "fmp">>
    /\ pf.second[1].sent = <<"finnhub", "finnhub", "fmp", "fmp">>
    /\ pf.second[1].ratios = "ok"
    /\ pf.second[1].out[1].f.peg_ratio = FmpRatio.priceToEarningsGrowthRatio

-----------------------------------------------------------------------------
(* Claims about aggregate_signals *)

\* The number of agent results of the call whose signal, in upper case, is sig.
Votes(sig) ==
    Cardinality({i \in 1..Len(pf.in) : Upper(pf.in[i].signal) = sig})

\* C34: aggregate_signals returns BULLISH exactly when the BULLISH count is
\* strictly greater than the BEARISH and the NEUTRAL count, BEARISH exactly
\* when the BEARISH count is strictly greater than the two others, and NEUTRAL
\* in every other case, ties between the largest counts and the empty list
\* included; for the empty list the confidence is 0.
C34_StrictPlurality ==
    (pf.pc = "done" /\ pf.fn = "aggregate_signals") =>
       LET bull == Votes("BULLISH")
           bear == Votes("BEARISH")
           neut == Votes("NEUTRAL")
           res  == pf.out[1]
       IN  /\ Len(pf.out) = 1
           /\ res.signal = "BULLISH" <=> (bull > bear /\ bull > neut)
           /\ res.signal = "BEARISH" <=> (bear > bull /\ bear > neut)
           /\ res.signal = "NEUTRAL" <=> ~(bull > bear /\ bull > neut)
                                           /\ ~(bear > bull /\ bear > neut)
           /\ pf.in = <<>> => (res.signal = "NEUTRAL" /\ res.confidence = 0)

\* One BULLISH and one BEARISH result, no NEUTRAL one: the largest counts
\* tie and the result is NEUTRAL.
C34_Witness ==
    /\ pf.pc = "done"
    /\ pf.fn = "aggregate_signals"
    /\ Len(pf.in) = 2
    /\ Votes("BULLISH") = 1
    /\ Votes("BEARISH") = 1
    /\ pf.out[1].signal = "NEUTRAL"

=============================================================================
